---- MODULE Spec2Model ----
(***************************************************************************)
(* Verification model of mimir: the fallback embedding service,            *)
(* the content deduplication gate and ingestion orchestrator, the job      *)
(* client with its job-record store and the batch driver, the primary and  *)
(* vector stores under deletion and enrichment, the retry backoff, the     *)
(* chunkers, the search service with its history, and categorization.      *)
(***************************************************************************)
EXTENDS Integers, Sequences, FiniteSets, TLC

(***************************************************************************)
(* Bounds of the model                                                     *)
(***************************************************************************)
MaxProviders == 2       \* providers configured in a fallback service
MaxCalls == 2           \* concurrent fallback calls
MaxInvoke == 3          \* provider invocations explored, over all calls
MaxAttemptsCfg == 1     \* largest configured SimpleRetryStrategy.MaxAttempts
MaxClock == 2           \* instants time.Now() can return
MaxCallers == 2         \* concurrent AddContent calls
MaxSuggestedTags == 2   \* tags in one categorization result
MaxApplyCalls == 1      \* ApplyCategories calls in one run
ConfidenceScale == 4    \* a confidence is k/ConfidenceScale, k in 0..ConfidenceScale
MaxPlainLen == 3        \* symbols in a text given to services.ContentAwareChunk
MaxIterations == 4      \* iterations of a chunking loop followed
MaxWorkerAttempts == 2  \* deliveries of one task to a worker
MaxChunks == 2          \* chunks the embedding worker stores for one content
MaxBackoffAttempts == 4 \* largest MaxAttempts and attempt NextBackoff is applied to
MaxBodyLen == 5         \* symbols (words and newlines) in a chunked body
MaxTokensCfg == 2       \* largest max_tokens handed to the chunkers
MaxOverlapCfg == 2      \* largest overlap handed to the chunkers
MaxSearchLimit == 2     \* largest limit a search is called with
MaxChunkRows == 4       \* chunk rows in the corpus searched

Calls == 1..MaxCalls
NoCall == 0
BaseDelays == {100}     \* configured SimpleRetryStrategy.BaseDelayMs values

(***************************************************************************)
(* State                                                                   *)
(***************************************************************************)
VARIABLES
    numProviders,    \* len(s.Providers)
    ActiveProvider,  \* FallbackEmbeddingService.ActiveProvider
    RetryStrategy,   \* SimpleRetryStrategy{MaxAttempts, BaseDelayMs}
    mu,              \* sync.RWMutex: [readers, writer]
    fb,              \* per call: position, locals and outcome
    ctxDone,         \* per call: the call's context has been cancelled
    fbHist,          \* per call: observations of the run
    broker,          \* tasks the asynq broker has accepted
    jobRows,         \* table background_jobs
    jobSeq,          \* BIGSERIAL of background_jobs.id
    jobClock,        \* the last time.Now() the job store has read
    lastJobOp,       \* the last job-client or job-store call and its outcome
    sources,         \* table sources
    content,         \* table content
    srcSeq,          \* BIGSERIAL of sources.id
    contentSeq,      \* BIGSERIAL of content.id
    cfg,             \* the configuration the content service was built with
    ac,              \* per AddContent call: position, locals and outcome
    acHist,          \* per AddContent call: observations of the run
    wk,              \* per job: the batch driver's position and attempt
    embeddings,      \* table embeddings: the chunk rows
    embSeq,          \* chunk identities handed out by uuid.New()
    ew,              \* per content: the embedding worker's position and locals
    sw,              \* per content: the summary writer's position and locals
    dc,              \* per content: the DeleteContent call's position and outcome
    bk,              \* a NextBackoff call: strategy, attempt and value returned
    ck,              \* a ContentAwareChunk call: arguments, locals and chunks
    searchQueries,   \* table search_queries
    searchResults,   \* table search_results
    sqSeq,           \* BIGSERIAL of search_queries.id
    sr,              \* a search call: position, locals and outcome
    tags,            \* table tags: the tag names
    contentTags,     \* table content_tags
    collections,     \* table collections: the collection names
    collectionContent, \* table collection_content
    applyCalls,      \* ApplyCategories calls made so far
    cz,              \* a Categorize call: provider response, parsed fields and result
    ca               \* a services.ContentAwareChunk call: arguments, loop locals and chunk count

fbVars == <<numProviders, ActiveProvider, RetryStrategy, mu, fb, ctxDone, fbHist>>
jobVars == <<broker, jobRows, jobSeq, jobClock, lastJobOp>>
ingestVars == <<sources, content, srcSeq, contentSeq, cfg, ac, acHist>>
jobRest == <<broker, jobRows, jobSeq, lastJobOp>>
ingestRest == <<sources, srcSeq, contentSeq, cfg, ac, acHist>>
wkVars == <<wk>>
stVars == <<embeddings, embSeq, ew, sw, dc>>
bkVars == <<bk>>
ckVars == <<ck>>
srVars == <<searchQueries, searchResults, sqSeq, sr>>
catVars == <<tags, contentTags, collections, collectionContent, applyCalls>>
czVars == <<cz>>
caVars == <<ca>>
pipeVars == <<wkVars, stVars, bkVars, ckVars, srVars, catVars, czVars, caVars>>

vars == <<numProviders, ActiveProvider, RetryStrategy, mu, fb, ctxDone, fbHist,
          broker, jobRows, jobSeq, jobClock, lastJobOp,
          sources, content, srcSeq, contentSeq, cfg, ac, acHist,
          wk, embeddings, embSeq, ew, sw, dc, bk, ck,
         searchQueries, searchResults, sqSeq, sr,
         tags, contentTags, collections, collectionContent, applyCalls,
         cz,
         ca>>

(***************************************************************************)
(* SimpleRetryStrategy.NextBackoff                                         *)
(***************************************************************************)
MaxDelayMs == 30000

NextBackoffOffByOne(s, attempt) ==
    IF s.MaxAttempts <= 0 THEN -1
    ELSE IF attempt > s.MaxAttempts THEN -1
    ELSE LET backoff == s.BaseDelayMs * (2 ^ attempt)
         IN  IF backoff > MaxDelayMs THEN MaxDelayMs ELSE backoff

\* the backoff without the 30 second cap
NextBackoffUncapped(s, attempt) ==
    IF s.MaxAttempts <= 0 THEN -1
    ELSE IF attempt >= s.MaxAttempts THEN -1
    ELSE s.BaseDelayMs * (2 ^ attempt)

NextBackoff(s, attempt) ==
    IF s.MaxAttempts <= 0 THEN -1
    ELSE IF attempt >= s.MaxAttempts THEN -1
    ELSE LET backoff == s.BaseDelayMs * (2 ^ attempt)
         IN  IF backoff > MaxDelayMs THEN MaxDelayMs ELSE backoff

(***************************************************************************)
(* Errors and results of a fallback call                                   *)
(***************************************************************************)
NoErr == [kind |-> "none", provider |-> 0, seq |-> 0]

\* fmt.Errorf("provider %s failed: %w", ...) / the mismatched-count error
ProviderErr(kind, provider, seq) == [kind |-> kind, provider |-> provider, seq |-> seq]

NoResult == [status |-> "none", err |-> NoErr, dimOK |-> TRUE, countOK |-> TRUE]

\* what a provider's embed method can hand back
Responses(kind) ==
    [err : BOOLEAN, dimOK : BOOLEAN, countOK : IF kind = "batch" THEN BOOLEAN ELSE {TRUE}]

InitCall ==
    [pc |-> "idle", kind |-> "single",
     initialProviderIndex |-> 0, currentProviderIndex |-> 0,
     attempt |-> 0, backoffMs |-> 0, lastErr |-> NoErr, result |-> NoResult]

InitHist ==
    [startIndex |-> 0, invocations |-> 0, tried |-> {}, advances |-> 0,
     allFailed |-> TRUE, cancelPoint |-> "none", invokedAfterCancel |-> 0,
     readGuard |-> "held", writeGuard |-> "held"]

RECURSIVE SumInvocations(_, _)
SumInvocations(h, cs) ==
    IF cs = {} THEN 0
    ELSE LET c == CHOOSE x \in cs : TRUE
         IN  h[c].invocations + SumInvocations(h, cs \ {c})

\* provider invocations started so far by all calls
TotalInvocations == SumInvocations(fbHist, Calls)

\* which guard of mu the call holds
Held(c) ==
    IF mu.writer = c THEN "exclusive"
    ELSE IF c \in mu.readers THEN "shared" ELSE "none"

ReadGuard(c) == IF Held(c) = "none" THEN "none" ELSE "held"
WriteGuard(c) == IF Held(c) = "exclusive" THEN "held" ELSE "none"

(***************************************************************************)
(* sync.RWMutex                                                            *)
(***************************************************************************)
CanRLock == mu.writer = NoCall
CanLock == mu.writer = NoCall /\ mu.readers = {}

RLocked(c) == [mu EXCEPT !.readers = @ \cup {c}]
RUnlockedKept(c) == mu
RUnlocked(c) == [mu EXCEPT !.readers = @ \ {c}]
Locked(c) == [mu EXCEPT !.writer = c]
Unlocked(c) == [mu EXCEPT !.writer = NoCall]

(***************************************************************************)
(* GenerateEmbedding / GenerateEmbeddings                                  *)
(***************************************************************************)
\* s.mu.RLock() on entry
FbBegin(c, kind) ==
    /\ fb[c].pc = "idle"
    /\ CanRLock
    /\ mu' = RLocked(c)
    /\ fb' = [fb EXCEPT ![c].pc = "entry_locked", ![c].kind = kind]
    /\ UNCHANGED <<numProviders, ActiveProvider, RetryStrategy, ctxDone, fbHist>>
    /\ UNCHANGED <<jobVars, ingestVars, pipeVars>>

\* initialProviderIndex := s.ActiveProvider; numProviders := len(s.Providers); RUnlock
FbReadInitial(c) ==
    /\ fb[c].pc = "entry_locked"
    /\ fb' = [fb EXCEPT ![c].pc = "loop", ![c].initialProviderIndex = ActiveProvider]
    /\ fbHist' = [fbHist EXCEPT ![c].startIndex = ActiveProvider,
                                ![c].readGuard = IF @ = "held" THEN ReadGuard(c) ELSE @]
    /\ mu' = RUnlocked(c)
    /\ UNCHANGED <<numProviders, ActiveProvider, RetryStrategy, ctxDone>>
    /\ UNCHANGED <<jobVars, ingestVars, pipeVars>>

\* top of the for loop: s.mu.RLock()
FbLoopRLock(c) ==
    /\ fb[c].pc = "loop"
    /\ CanRLock
    /\ mu' = RLocked(c)
    /\ fb' = [fb EXCEPT ![c].pc = "loop_locked"]
    /\ UNCHANGED <<numProviders, ActiveProvider, RetryStrategy, ctxDone, fbHist>>
    /\ UNCHANGED <<jobVars, ingestVars, pipeVars>>

\* currentProviderIndex := s.ActiveProvider; provider := s.Providers[...]; RUnlock;
\* the provider's embed method is entered
FbInvoke(c) ==
    /\ fb[c].pc = "loop_locked"
    /\ TotalInvocations < MaxInvoke
    /\ fb' = [fb EXCEPT ![c].pc = "calling", ![c].currentProviderIndex = ActiveProvider]
    /\ fbHist' = [fbHist EXCEPT
            ![c].invocations = @ + 1,
            ![c].tried = @ \cup {ActiveProvider},
            ![c].invokedAfterCancel =
                IF fbHist[c].cancelPoint \in {"calling", "waiting"} THEN @ + 1 ELSE @,
            ![c].readGuard = IF @ = "held" THEN ReadGuard(c) ELSE @]
    /\ mu' = RUnlocked(c)
    /\ UNCHANGED <<numProviders, ActiveProvider, RetryStrategy, ctxDone>>
    /\ UNCHANGED <<jobVars, ingestVars, pipeVars>>

\* the accepted vectors of a response that came back without error
Accepts(kind, resp) ==
    /\ ~resp.err
    /\ kind = "batch" => resp.countOK

CtxErrIgnored(c) == FALSE
\* ctx.Err() != nil
CtxErr(c) == ctxDone[c]

\* the provider returns; ctx.Err() check; success check; retry decision
FbProviderReturn(c, resp) ==
    /\ fb[c].pc = "calling"
    /\ resp \in Responses(fb[c].kind)
    /\ LET me == fb[c]
           seq == fbHist[c].invocations
           err == ProviderErr(IF resp.err THEN "failed" ELSE "mismatch",
                              me.currentProviderIndex, seq)
           backoffMs == NextBackoff(RetryStrategy, me.attempt)
       IN  IF CtxErr(c)
           THEN /\ fb' = [fb EXCEPT ![c].pc = "done",
                                    ![c].result = [NoResult EXCEPT !.status = "cancelled"]]
                /\ UNCHANGED fbHist
           ELSE IF Accepts(me.kind, resp)
           THEN /\ fb' = [fb EXCEPT ![c].pc = "done",
                                    ![c].result = [status |-> "ok", err |-> NoErr,
                                                   dimOK |-> resp.dimOK,
                                                   countOK |-> resp.countOK]]
                /\ fbHist' = [fbHist EXCEPT ![c].allFailed = FALSE]
           ELSE /\ fb' = [fb EXCEPT ![c].lastErr = err,
                                    ![c].backoffMs = backoffMs,
                                    ![c].pc = IF backoffMs < 0 THEN "switch" ELSE "waiting"]
                /\ UNCHANGED fbHist
    /\ UNCHANGED <<numProviders, ActiveProvider, RetryStrategy, mu, ctxDone>>
    /\ UNCHANGED <<jobVars, ingestVars, pipeVars>>

\* s.mu.Lock() before switching provider
FbSwitchLock(c) ==
    /\ fb[c].pc = "switch"
    /\ CanLock
    /\ mu' = Locked(c)
    /\ fb' = [fb EXCEPT ![c].pc = "switch_locked"]
    /\ UNCHANGED <<numProviders, ActiveProvider, RetryStrategy, ctxDone, fbHist>>
    /\ UNCHANGED <<jobVars, ingestVars, pipeVars>>

\* nextProviderIndex := (s.ActiveProvider + 1) % numProviders
NextProviderIndexNoWrap(active, n) == active + 1
NextProviderIndex(active, n) == (active + 1) % n

\* nextProviderIndex := (s.ActiveProvider + 1) % numProviders; cycle check;
\* s.ActiveProvider = next; initialProviderIndex = next; Unlock; attempt = 0
FbSwitch(c) ==
    /\ fb[c].pc = "switch_locked"
    /\ LET nextProviderIndex == NextProviderIndex(ActiveProvider, numProviders)
       IN  IF nextProviderIndex = fb[c].initialProviderIndex
           THEN /\ fb' = [fb EXCEPT ![c].pc = "done",
                                    ![c].result = [NoResult EXCEPT !.status = "exhausted",
                                                                   !.err = fb[c].lastErr]]
                /\ fbHist' = [fbHist EXCEPT
                        ![c].readGuard = IF @ = "held" THEN ReadGuard(c) ELSE @]
                /\ UNCHANGED ActiveProvider
           ELSE /\ ActiveProvider' = nextProviderIndex
                /\ fb' = [fb EXCEPT ![c].pc = "loop",
                                    ![c].initialProviderIndex = nextProviderIndex,
                                    ![c].attempt = 0]
                /\ fbHist' = [fbHist EXCEPT
                        ![c].advances = @ + 1,
                        ![c].readGuard = IF @ = "held" THEN ReadGuard(c) ELSE @,
                        ![c].writeGuard = IF @ = "held" THEN WriteGuard(c) ELSE @]
    /\ mu' = Unlocked(c)
    /\ UNCHANGED <<numProviders, RetryStrategy, ctxDone>>
    /\ UNCHANGED <<jobVars, ingestVars, pipeVars>>

\* select: case <-time.After(backoff): attempt++
\* when the timer and ctx.Done() are both ready the select takes either case
FbWaitTimer(c) ==
    /\ fb[c].pc = "waiting"
    /\ fb' = [fb EXCEPT ![c].pc = "loop", ![c].attempt = @ + 1]
    /\ UNCHANGED <<numProviders, ActiveProvider, RetryStrategy, mu, ctxDone, fbHist>>
    /\ UNCHANGED <<jobVars, ingestVars, pipeVars>>

\* select: case <-ctx.Done()
FbWaitCancelled(c) ==
    /\ fb[c].pc = "waiting"
    /\ ctxDone[c]
    /\ fb' = [fb EXCEPT ![c].pc = "done",
                        ![c].result = [NoResult EXCEPT !.status = "cancelled"]]
    /\ UNCHANGED <<numProviders, ActiveProvider, RetryStrategy, mu, ctxDone, fbHist>>
    /\ UNCHANGED <<jobVars, ingestVars, pipeVars>>

\* the caller cancels the context of a running call
FbCancel(c) ==
    /\ fb[c].pc \notin {"idle", "done"}
    /\ ~ctxDone[c]
    /\ ctxDone' = [ctxDone EXCEPT ![c] = TRUE]
    /\ fbHist' = [fbHist EXCEPT ![c].cancelPoint = fb[c].pc]
    /\ UNCHANGED <<numProviders, ActiveProvider, RetryStrategy, mu, fb>>
    /\ UNCHANGED <<jobVars, ingestVars, pipeVars>>

\* NewFallbackEmbeddingService: at least one provider, ActiveProvider 0
FbInit ==
    /\ numProviders \in 1..MaxProviders
    /\ ActiveProvider = 0
    /\ RetryStrategy \in [MaxAttempts : 0..MaxAttemptsCfg, BaseDelayMs : BaseDelays]
    /\ mu = [readers |-> {}, writer |-> NoCall]
    /\ fb = [c \in Calls |-> InitCall]
    /\ ctxDone = [c \in Calls |-> FALSE]
    /\ fbHist = [c \in Calls |-> InitHist]

FbNext ==
    \E c \in Calls :
        \/ \E kind \in {"single", "batch"} : FbBegin(c, kind)
        \/ FbReadInitial(c)
        \/ FbLoopRLock(c)
        \/ FbInvoke(c)
        \/ \E resp \in Responses("batch") : FbProviderReturn(c, resp)
        \/ FbSwitchLock(c)
        \/ FbSwitch(c)
        \/ FbWaitTimer(c)
        \/ FbWaitCancelled(c)
        \/ FbCancel(c)

(***************************************************************************)
(* Properties of the fallback service                                      *)
(***************************************************************************)
Done(c) == fb[c].pc = "done"
RunsAlone(c) == \A d \in Calls \ {c} : fb[d].pc = "idle"
Budget == IF RetryStrategy.MaxAttempts > 0 THEN RetryStrategy.MaxAttempts + 1 ELSE 1

\* C2: a call that runs alone advances the active-provider index fewer than N
\* times: when the rotation is back at the index active at the start of the
\* call, the call fails with the all-providers-exhausted error instead of
\* advancing again.
C2_RotationBackAtStartFails ==
    \A c \in Calls : RunsAlone(c) => fbHist[c].advances < numProviders

\* C3: a call that returns success has invoked at most N distinct providers and
\* has made at most N x max_attempts provider invocations (max_attempts >= 1).
C3_SuccessWithinAttempts ==
    \A c \in Calls :
        (fb[c].result.status = "ok" /\ RetryStrategy.MaxAttempts >= 1) =>
            /\ Cardinality(fbHist[c].tried) <= numProviders
            /\ fbHist[c].invocations <= numProviders * RetryStrategy.MaxAttempts

\* C4: with one configured provider a call never invokes it more often than the
\* retry budget allows, and a call that ends without success and without
\* cancellation ends with the all-providers-exhausted error, which wraps the
\* error of the provider's last invocation.
C4_SingleProviderExhausts ==
    \A c \in Calls :
        numProviders = 1 =>
            /\ fbHist[c].invocations <= Budget
            /\ (Done(c) /\ fb[c].result.status \notin {"ok", "cancelled"}) =>
                    /\ fb[c].result.status = "exhausted"
                    /\ fbHist[c].invocations = Budget
                    /\ fb[c].result.err.kind \in {"failed", "mismatch"}
                    /\ fb[c].result.err.provider = 0
                    /\ fb[c].result.err.seq = fbHist[c].invocations

C4_Witness ==
    \E c \in Calls :
        /\ numProviders = 1
        /\ RetryStrategy.MaxAttempts >= 1
        /\ fb[c].result.status = "exhausted"
        /\ fbHist[c].invocations = RetryStrategy.MaxAttempts + 1

\* C5: a context cancelled while a provider call is running or while the call
\* sleeps in a backoff makes the call return the cancellation error: the check
\* after the provider call observes it and returns, with no further provider
\* invoked; a backoff is left through ctx.Done(), or, when the select takes the
\* timer case, through the check after the one provider call that follows.
C5_CancellationPropagates ==
    \A c \in Calls :
        fbHist[c].cancelPoint \in {"calling", "waiting"} =>
            /\ Done(c) => fb[c].result.status = "cancelled"
            /\ fbHist[c].invokedAfterCancel <=
                    (IF fbHist[c].cancelPoint = "waiting" THEN 1 ELSE 0)
            /\ fbHist[c].invokedAfterCancel = 1 => fb[c].pc \in {"calling", "done"}

C5_Witness ==
    \E c, d \in Calls :
        /\ fbHist[c].cancelPoint = "waiting" /\ fb[c].result.status = "cancelled"
        /\ fbHist[d].cancelPoint = "calling" /\ fb[d].result.status = "cancelled"

\* C6: while a provider's embed method runs for a call, the call holds neither
\* guard of mu; every read of ActiveProvider was made holding a guard and every
\* write holding the exclusive guard.
C6_NoGuardAcrossProviderCall ==
    \A c \in Calls :
        /\ fb[c].pc = "calling" => Held(c) = "none"
        /\ fbHist[c].readGuard = "held"
        /\ fbHist[c].writeGuard = "held"

C6_Witness ==
    \E c, d \in Calls :
        /\ fb[c].pc = "calling" /\ fbHist[c].advances >= 1
        /\ Held(d) # "none"

\* C7: a response that came back without error but with the wrong dimension (or,
\* for a batch, the wrong number of vectors) is never the result of a call.
C7_MismatchNeverReturned ==
    \A c \in Calls :
        fb[c].result.status = "ok" => fb[c].result.dimOK /\ fb[c].result.countOK

\* C27: with calls running concurrently on one service, a call returns the
\* all-providers-failed error only after it has itself invoked every configured
\* provider at least once.
C27_AllFailedAfterTryingAll ==
    \A c \in Calls :
        fb[c].result.status = "exhausted" => fbHist[c].tried = 0..(numProviders - 1)

\* C30: in every state calls running concurrently can reach, the shared index
\* is a valid index into Providers: 0 <= ActiveProvider < len(Providers).
C30_ActiveProviderInRange == ActiveProvider \in 0..(numProviders - 1)

\* two calls have both advanced the index, which has wrapped around to 0, while
\* one of them is about to read Providers[ActiveProvider]
C30_Witness ==
    \E c, d \in Calls :
        /\ c # d
        /\ numProviders >= 2
        /\ fbHist[c].advances >= 1 /\ fbHist[d].advances >= 1
        /\ ActiveProvider = 0
        /\ fb[d].pc = "loop_locked"

(***************************************************************************)
(* Go error values: the chain errors.Is / errors.As walk, outermost first  *)
(***************************************************************************)
Nil == <<>>
ErrDuplicate == <<"store.ErrDuplicate">>
ErrForeignKeyViolation == <<"store.ErrForeignKeyViolation">>
PgUniqueViolation == <<"pgconn.PgError:23505">>
PgConnError == <<"pgx: connection failure">>
BrokerError == <<"asynq: enqueue failed">>

\* fmt.Errorf("msg: %w", err)
Wrap(msg, err) == <<msg>> \o err
ErrorsAsPg(err, code) == \E i \in DOMAIN err : err[i] = code[1]

(***************************************************************************)
(* Job records: StoreImpl.RecordJobEnqueue                                 *)
(***************************************************************************)
UUIDs == {"u1"}                \* task identifiers that parse as a UUID
NonUUIDs == {"t1"}             \* custom task identifiers that do not
TaskIDs == UUIDs \cup NonUUIDs
NilUUID == "00000000-0000-0000-0000-000000000000"
TypeEmbeddingJob == "embedding:generate"
TypeSummarizationJob == "summarization:generate"
NullInt64 == -1                \* sql.NullInt64{Valid: false}
NilPayload == <<"nil">>         \* a nil []byte
NullText == <<>>               \* a NULL TEXT column

\* uuid.Parse: the zero UUID together with an error when the text is no UUID
UuidParse(id) ==
    IF id \in UUIDs THEN [uuid |-> id, err |-> FALSE]
    ELSE [uuid |-> NilUUID, err |-> TRUE]

\* the parameter records the callers of RecordJobEnqueue are explored with
JobRecordParams ==
    {[JobID |-> j, TaskType |-> TypeEmbeddingJob, Payload |-> f.Payload,
      Queue |-> "embeddings", Status |-> f.Status,
      RelatedEntityType |-> "content", RelatedEntityID |-> f.RelatedEntityID] :
        j \in UUIDs \cup {NilUUID},
        f \in {[Payload |-> NilPayload, Status |-> "enqueued", RelatedEntityID |-> 0],
               [Payload |-> <<"p">>, Status |-> "running", RelatedEntityID |-> 1]}}

\* the row the INSERT statement proposes
JobRow(params, now) ==
    [id |-> jobSeq + 1,
     job_id |-> params.JobID,
     task_type |-> params.TaskType,
     payload |-> IF params.Payload # NilPayload THEN params.Payload ELSE <<"{}">>,
     queue |-> params.Queue,
     status |-> params.Status,
     related_entity_type |-> params.RelatedEntityType,
     related_entity_id |-> IF params.RelatedEntityID # 0
                           THEN params.RelatedEntityID ELSE NullInt64,
     batch_api_job_id |-> NullText,
     batch_input_file_id |-> NullText,
     batch_output_file_id |-> NullText,
     created_at |-> now,
     updated_at |-> now]

JobConflict(rows, row) == \E r \in rows : r.job_id = row.job_id

\* INSERT ... ON CONFLICT (job_id) DO UPDATE
InsertOrReplace(rows, row) ==
    {r \in rows : r.job_id # row.job_id} \cup {row}

\* INSERT ... ON CONFLICT (job_id) DO NOTHING
InsertOnConflictDoNothing(rows, row) ==
    IF JobConflict(rows, row) THEN rows ELSE rows \cup {row}

\* the instants time.Now() can return next
Nows == {t \in {jobClock, jobClock + 1} : t <= MaxClock}

\* RecordJobEnqueue: the rows afterwards and the error returned
RecordJobEnqueue(params, dbOk, now) ==
    LET row == JobRow(params, now)
        rows == InsertOnConflictDoNothing(jobRows, row)
    IN  IF ~dbOk
        THEN [rows |-> jobRows, noRows |-> FALSE,
              err |-> Wrap("failed to record job enqueue event", PgConnError)]
        ELSE [rows |-> rows,
              noRows |-> (row \notin rows),    \* Scan returns pgx.ErrNoRows
              err |-> Nil]

\* a direct call of the job store's RecordJobEnqueue
JsRecordJobEnqueue(params, dbOk, now) ==
    /\ params \in JobRecordParams
    /\ now \in Nows
    /\ LET out == RecordJobEnqueue(params, dbOk, now)
       IN  /\ jobRows' = out.rows
           /\ jobSeq' = IF out.rows # jobRows THEN jobSeq + 1 ELSE jobSeq
           /\ lastJobOp' = [op |-> "record", id |-> params.JobID, brokerOk |-> TRUE,
                            dbOk |-> dbOk, noRows |-> out.noRows, err |-> out.err]
    /\ jobClock' = now
    /\ UNCHANGED broker
    /\ UNCHANGED <<fbVars, ingestVars, pipeVars>>

(***************************************************************************)
(* AsynqJobClient.Enqueue                                                  *)
(***************************************************************************)
\* what Enqueue returns once the broker has answered
EnqueueErrStrict(brokerErr, parseErr, recordErr) ==
    IF brokerErr # Nil THEN brokerErr ELSE recordErr

EnqueueErr(brokerErr, parseErr, recordErr) == brokerErr

\* jc.client.EnqueueContext, uuid.Parse(info.ID), jc.jobStore.RecordJobEnqueue
Enqueue(taskType, payload, queue, relatedEntityType, relatedEntityID, brokerOk, id, dbOk, now) ==
    /\ now \in Nows
    /\ brokerOk => id \in TaskIDs \ {t.id : t \in broker}
    /\ LET parsed == UuidParse(id)
           recordParams == [JobID |-> parsed.uuid, TaskType |-> taskType,
                            Payload |-> payload, Queue |-> queue,
                            Status |-> "enqueued",
                            RelatedEntityType |-> relatedEntityType,
                            RelatedEntityID |-> relatedEntityID]
           out == RecordJobEnqueue(recordParams, dbOk, now)
       IN  IF ~brokerOk
           THEN /\ lastJobOp' = [op |-> "enqueue", id |-> id, brokerOk |-> FALSE,
                                 dbOk |-> dbOk, noRows |-> FALSE,
                                 err |-> EnqueueErr(BrokerError, FALSE, Nil)]
                /\ UNCHANGED <<broker, jobRows, jobSeq, jobClock>>
           ELSE /\ broker' = broker \cup {[id |-> id, type |-> taskType, queue |-> queue]}
                /\ jobRows' = out.rows
                /\ jobSeq' = IF out.rows # jobRows THEN jobSeq + 1 ELSE jobSeq
                /\ jobClock' = now
                /\ lastJobOp' = [op |-> "enqueue", id |-> id, brokerOk |-> TRUE,
                                 dbOk |-> dbOk, noRows |-> out.noRows,
                                 err |-> EnqueueErr(Nil, parsed.err, out.err)]

\* a direct call of the job client's Enqueue
JcEnqueue(relatedEntityID, brokerOk, id, dbOk, now) ==
    /\ id \in TaskIDs
    /\ Enqueue(TypeEmbeddingJob, <<"p">>, "embeddings", "content", relatedEntityID,
               brokerOk, id, dbOk, now)
    /\ UNCHANGED <<fbVars, ingestVars, pipeVars>>

NoJobOp == [op |-> "none", id |-> NilUUID, brokerOk |-> TRUE, dbOk |-> TRUE,
            noRows |-> FALSE, err |-> Nil]

JobInit ==
    /\ broker = {}
    /\ jobRows = {}
    /\ jobSeq = 0
    /\ jobClock = 1
    /\ lastJobOp = NoJobOp

JobNext ==
    \/ \E params \in JobRecordParams, dbOk \in BOOLEAN, now \in 1..MaxClock :
            JsRecordJobEnqueue(params, dbOk, now)
    \/ \E relatedEntityID \in {0, 1}, brokerOk \in BOOLEAN, id \in TaskIDs,
          dbOk \in BOOLEAN, now \in 1..MaxClock :
            JcEnqueue(relatedEntityID, brokerOk, id, dbOk, now)

(***************************************************************************)
(* Properties of the job client and the job store                          *)
(***************************************************************************)
\* C9: a RecordJobEnqueue call for a task UUID that already has a row, made
\* against a working database, returns no error and leaves the job table as it
\* was: one row for that UUID, every column unchanged.
C9_RecordTwiceIsNoOp ==
    [][\A params \in JobRecordParams, now \in 1..MaxClock :
          (/\ JsRecordJobEnqueue(params, TRUE, now)
           /\ \E r \in jobRows : r.job_id = params.JobID)
          => /\ lastJobOp'.err = Nil
             /\ jobRows' = jobRows
             /\ Cardinality({r \in jobRows' : r.job_id = params.JobID}) = 1]_vars

C9_Witness ==
    /\ lastJobOp.op = "record" /\ lastJobOp.noRows /\ lastJobOp.err = Nil
    /\ \E r \in jobRows :
          r.job_id = lastJobOp.id /\ r.job_id \in UUIDs /\ r.updated_at < jobClock

\* C10: once the broker has accepted the task, Enqueue returns no error, also
\* when the task identifier is no UUID or the job row cannot be written; a row
\* that Enqueue writes has status enqueued; Enqueue returns an error only when
\* the broker hand-off failed, and then writes nothing.
C10_EnqueueSurvivesRecording ==
    [][\A relatedEntityID \in {0, 1}, brokerOk \in BOOLEAN, id \in TaskIDs,
         dbOk \in BOOLEAN, now \in 1..MaxClock :
          JcEnqueue(relatedEntityID, brokerOk, id, dbOk, now)
          => /\ brokerOk => lastJobOp'.err = Nil
             /\ lastJobOp'.err # Nil => (~brokerOk /\ jobRows' = jobRows)
             /\ \A r \in jobRows' \ jobRows : r.status = "enqueued"]_vars

C10_Witness ==
    /\ lastJobOp.op = "enqueue" /\ lastJobOp.brokerOk /\ lastJobOp.err = Nil
    /\ lastJobOp.id \in NonUUIDs /\ ~lastJobOp.dbOk
    /\ \E r \in jobRows : r.job_id \in UUIDs /\ r.status = "enqueued"


(***************************************************************************)
(* Job status: UpdateJobStatus, RecordBatchAPIInfo, UpdateJobStatusAndOutput *)
(***************************************************************************)
JobStatusEnqueued == "enqueued"
JobStatusProcessingBatch == "processing_batch"
JobStatusCompleted == "completed"
JobStatusFailed == "failed"
JobStatusPending == "pending"
JobStatusRunning == "running"
JobStatusCancelled == "cancelled"
JobStatusRetrying == "retrying"
JobStatusTimedOut == "timed_out"

JobStatuses ==
    {JobStatusEnqueued, JobStatusProcessingBatch, JobStatusCompleted,
     JobStatusFailed, JobStatusPending, JobStatusRunning, JobStatusCancelled,
     JobStatusRetrying, JobStatusTimedOut}

ErrNotFound == <<"store.ErrNotFound">>

\* UPDATE background_jobs SET status, updated_at (no WHERE clause)
SetStatusEverywhere(rows, jobID, status, now) ==
    {[r EXCEPT !.status = status, !.updated_at = now] : r \in rows}

\* UPDATE background_jobs SET status, updated_at WHERE job_id = $3
SetStatusByJobID(rows, jobID, status, now) ==
    {IF r.job_id = jobID THEN [r EXCEPT !.status = status, !.updated_at = now] ELSE r :
        r \in rows}

\* UpdateJobStatus: the rows afterwards and the error returned
UpdateJobStatus(rows, jobID, status, dbOk, now) ==
    IF ~dbOk
    THEN [rows |-> rows, err |-> Wrap("failed to update job status", PgConnError)]
    ELSE IF \A r \in rows : r.job_id # jobID
    THEN [rows |-> rows, err |-> Wrap("job not found to update status", ErrNotFound)]
    ELSE [rows |-> SetStatusByJobID(rows, jobID, status, now), err |-> Nil]

\* RecordBatchAPIInfo: the rows afterwards and the error returned
RecordBatchAPIInfo(rows, jobID, batchJobID, inputFileID, dbOk, now) ==
    IF ~dbOk
    THEN [rows |-> rows, err |-> Wrap("failed to record batch info", PgConnError)]
    ELSE IF \A r \in rows : r.job_id # jobID
    THEN [rows |-> rows, err |-> Wrap("job not found to record batch info", ErrNotFound)]
    ELSE [rows |-> {IF r.job_id = jobID
                    THEN [r EXCEPT !.batch_api_job_id = batchJobID,
                                   !.batch_input_file_id = inputFileID,
                                   !.updated_at = now]
                    ELSE r : r \in rows},
          err |-> Nil]

\* UpdateJobStatusAndOutput: the rows afterwards and the error returned
UpdateJobStatusAndOutput(rows, batchJobID, status, outputFileID, dbOk, now) ==
    IF ~dbOk
    THEN [rows |-> rows, err |-> Wrap("failed to update job status/output", PgConnError)]
    ELSE IF \A r \in rows : r.batch_api_job_id # batchJobID
    THEN [rows |-> rows, err |-> ErrNotFound]
    ELSE [rows |-> {IF r.batch_api_job_id = batchJobID
                    THEN [r EXCEPT !.status = status,
                                   !.batch_output_file_id = outputFileID,
                                   !.updated_at = now]
                    ELSE r : r \in rows},
          err |-> Nil]

(***************************************************************************)
(* The batch driver, one state machine per task UUID                       *)
(***************************************************************************)
FileIdOf(j) == <<"file", j>>       \* the provider's identifier of the input file
BatchIdOf(j) == <<"batch", j>>     \* the provider's identifier of the batch
OutputIdOf(j) == <<"output", j>>   \* the provider's identifier of the output file
BatchStatuses == {"in_progress", "completed", "failed"}

InitWk == [pc |-> "none", attempt |-> 0]

\* enqueued --(worker picks up)--> running; a redelivery starts a new attempt
WkPickUp(j, dbOk, now) ==
    /\ \E t \in broker : t.id = j
    /\ wk[j].pc \in {"none", "errored"}
    /\ wk[j].attempt < MaxWorkerAttempts
    /\ now \in Nows
    /\ LET out == UpdateJobStatus(jobRows, j, JobStatusRunning, dbOk, now)
       IN  /\ jobRows' = out.rows
           /\ wk' = [wk EXCEPT ![j].pc = IF out.err = Nil THEN "running" ELSE "errored",
                               ![j].attempt = @ + 1]
    /\ jobClock' = now
    /\ UNCHANGED <<broker, jobSeq, lastJobOp>>
    /\ UNCHANGED <<fbVars, ingestVars, stVars, bkVars, ckVars, srVars, catVars, czVars, caVars>>

\* running --(upload input file)--> running[file_uploaded]
WkUpload(j, dbOk, now) ==
    /\ wk[j].pc = "running"
    /\ now \in Nows
    /\ LET out == RecordBatchAPIInfo(jobRows, j, NullText, FileIdOf(j), dbOk, now)
       IN  /\ jobRows' = out.rows
           /\ wk' = [wk EXCEPT ![j].pc = IF out.err = Nil THEN "uploaded" ELSE "errored"]
    /\ jobClock' = now
    /\ UNCHANGED <<broker, jobSeq, lastJobOp>>
    /\ UNCHANGED <<fbVars, ingestVars, stVars, bkVars, ckVars, srVars, catVars, czVars, caVars>>

\* running[file_uploaded] --(create batch)--> processing_batch
WkCreateBatch(j, dbOk, now) ==
    /\ wk[j].pc = "uploaded"
    /\ now \in Nows
    /\ LET info == RecordBatchAPIInfo(jobRows, j, BatchIdOf(j), FileIdOf(j), dbOk, now)
           out == UpdateJobStatus(info.rows, j, JobStatusProcessingBatch, dbOk, now)
       IN  /\ jobRows' = out.rows
           /\ wk' = [wk EXCEPT ![j].pc = IF out.err = Nil THEN "batch" ELSE "errored"]
    /\ jobClock' = now
    /\ UNCHANGED <<broker, jobSeq, lastJobOp>>
    /\ UNCHANGED <<fbVars, ingestVars, stVars, bkVars, ckVars, srVars, catVars, czVars, caVars>>

\* processing_batch --(poll provider)--> processing_batch | completed | failed
WkCheckBatch(j, batchStatus, dbOk, now) ==
    /\ wk[j].pc = "batch"
    /\ batchStatus \in BatchStatuses
    /\ now \in Nows
    /\ LET out == IF batchStatus = "completed"
                  THEN UpdateJobStatusAndOutput(jobRows, BatchIdOf(j), JobStatusCompleted,
                                                OutputIdOf(j), dbOk, now)
                  ELSE IF batchStatus = "failed"
                  THEN UpdateJobStatusAndOutput(jobRows, BatchIdOf(j), JobStatusFailed,
                                                NullText, dbOk, now)
                  ELSE [rows |-> jobRows, err |-> Nil]
       IN  /\ jobRows' = out.rows
           /\ wk' = [wk EXCEPT ![j].pc = IF out.err # Nil THEN "batch"
                                         ELSE IF batchStatus = "in_progress" THEN "batch"
                                         ELSE batchStatus]
    /\ jobClock' = now
    /\ UNCHANGED <<broker, jobSeq, lastJobOp>>
    /\ UNCHANGED <<fbVars, ingestVars, stVars, bkVars, ckVars, srVars, catVars, czVars, caVars>>

WkIdle == wk = [j \in UUIDs |-> InitWk]

WorkerNext ==
    \/ \E params \in JobRecordParams, dbOk \in BOOLEAN, now \in 1..MaxClock :
            JsRecordJobEnqueue(params, dbOk, now)
    \/ \E relatedEntityID \in {0, 1}, brokerOk \in BOOLEAN, id \in TaskIDs,
          dbOk \in BOOLEAN, now \in 1..MaxClock :
            JcEnqueue(relatedEntityID, brokerOk, id, dbOk, now)
    \/ \E j \in UUIDs, dbOk \in BOOLEAN, now \in 1..MaxClock : WkPickUp(j, dbOk, now)
    \/ \E j \in UUIDs, dbOk \in BOOLEAN, now \in 1..MaxClock : WkUpload(j, dbOk, now)
    \/ \E j \in UUIDs, dbOk \in BOOLEAN, now \in 1..MaxClock : WkCreateBatch(j, dbOk, now)
    \/ \E j \in UUIDs, batchStatus \in BatchStatuses, dbOk \in BOOLEAN, now \in 1..MaxClock :
            WkCheckBatch(j, batchStatus, dbOk, now)


(***************************************************************************)
(* Properties of the job status                                            *)
(***************************************************************************)
\* the position of a status in the life of one worker attempt
StatusRank(status) ==
    IF status \in {JobStatusEnqueued, JobStatusPending} THEN 0
    ELSE IF status \in {JobStatusRunning, JobStatusRetrying} THEN 1
    ELSE IF status = JobStatusProcessingBatch THEN 2
    ELSE 3

Attempt(jobID) == IF jobID \in UUIDs THEN wk[jobID].attempt ELSE 0

Callers == 1..MaxCallers
Bodies == {"hello world", "quantum"}
SourceNames == {"", "test", "cli"}

\* SHA-256 of the body, hex encoded
calculateHash(body) ==
    CASE body = "hello world" ->
            "b94d27b9934d3e08a52e52d7da7dabfac484efe37a5380ee9088f7ace2efcde9"
      [] body = "quantum" ->
            "8fb7cf7a46995c95da6ad4cca750efb66946b771aca070d5948ea80ca33237b4"
      [] body = "golang" ->
            "d754ed9f64ac293b10268157f283ee23256fb32a4f8dedb25c8446ca5bcb0bb3"

\* SELECT ... FROM content WHERE content_hash = $1
ContentByHash(hash) == {r \in content : r.content_hash = hash}
\* SELECT ... FROM sources WHERE name = $1
SourceByName(name) == {r \in sources : r.name = name}

\* the error CreateContent returns for the INSERT's outcome
CreateContentErr(dbOk, sourceID, hash) ==
    IF ~dbOk THEN Wrap("failed to insert content", PgConnError)
    ELSE IF \A r \in sources : r.id # sourceID
    THEN Wrap("source ID does not exist", ErrForeignKeyViolation)
    ELSE IF ContentByHash(hash) # {}
    THEN Wrap("content with hash already exists", ErrDuplicate)
    ELSE Nil

\* CreateContentIfNotExists: errors.As(err, &pgErr) && pgErr.Code == "23505"
IsUniqueViolation(err) == ErrorsAsPg(err, PgUniqueViolation)

\* the block of AddContent guarded by `if !existed`
EnrichesAlways(existed) == TRUE
Enriches(existed) == ~existed

\* the tag names and the category a categorizer may suggest
TagNames == <<"physics", "ai", "go">>
SuggestedTags == {SubSeq(TagNames, 1, n) : n \in {k \in 0..MaxSuggestedTags : k <= Len(TagNames)}}
Categories == {"", "science"}
\* ContentWithCategories{Tags, Category}
CategorizationResults == [Tags : SuggestedTags, Category : Categories]
NoCategories == [Tags |-> <<>>, Category |-> ""]
CategorizerError == <<"categorizer: provider call failed">>

\* GetOrCreateTagsByName: each name is looked up and created when missing; the
\* first `done` names go through and the statement for the next one fails
GetOrCreateTagsByName(rows, names, done) ==
    [rows |-> rows \cup {names[i] : i \in 1..done},
     tags |-> IF done = Len(names) THEN names ELSE <<>>,
     err |-> IF done = Len(names) THEN Nil ELSE Wrap("failed to get tag", PgConnError)]

\* AddTagsToContent: INSERT INTO content_tags ... ON CONFLICT DO NOTHING, one
\* statement per tag; the first `done` go through
AddTagsToContent(rows, contentID, tagIDs, done) ==
    [rows |-> rows \cup {[content_id |-> contentID, tag_id |-> tagIDs[i]] : i \in 1..done},
     err |-> IF done = Len(tagIDs) THEN Nil ELSE Wrap("failed to add tag to content", PgConnError)]

InitAc ==
    [pc |-> "idle", body |-> "hello world", name |-> "",
     sourceID |-> 0, contentID |-> 0, existed |-> FALSE, err |-> Nil,
     res |-> NoCategories, catErr |-> Nil, tagErr |-> Nil]

InitAcHist ==
    [dupAtStart |-> FALSE, storedID |-> 0, lostRace |-> FALSE, inserted |-> FALSE,
     jobs |-> 0]

Failed(p, err) == [ac EXCEPT ![p].pc = "done", ![p].err = err]

(***************************************************************************)
(* ContentService.AddContent                                               *)
(***************************************************************************)
\* processInput, and the empty-name check of GetOrCreateSource
AcBegin(p, body, name, procOk) ==
    /\ ac[p].pc = "idle"
    /\ LET started == [ac EXCEPT ![p].body = body, ![p].name = name]
       IN  ac' = IF ~procOk
                 THEN [started EXCEPT ![p].pc = "done",
                                      ![p].err = <<"failed to process input">>]
                 ELSE IF name = ""
                 THEN [started EXCEPT ![p].pc = "done",
                          ![p].err = Wrap("get/create source",
                                          <<"source name cannot be empty">>)]
                 ELSE [started EXCEPT ![p].pc = "get_source"]
    /\ acHist' = [acHist EXCEPT
            ![p].dupAtStart = ContentByHash(calculateHash(body)) # {},
            ![p].storedID = IF ContentByHash(calculateHash(body)) # {}
                            THEN (CHOOSE r \in ContentByHash(calculateHash(body)) : TRUE).id
                            ELSE 0]
    /\ UNCHANGED <<sources, content, srcSeq, contentSeq, cfg>>
    /\ UNCHANGED jobVars
    /\ UNCHANGED <<fbVars, pipeVars>>

\* GetOrCreateSource: s.primaryStore.GetSourceByName
AcGetSourceByName(p, dbOk) ==
    /\ ac[p].pc = "get_source"
    /\ LET found == SourceByName(ac[p].name)
       IN  ac' = IF ~dbOk
                 THEN Failed(p, Wrap("get/create source",
                                     Wrap("failed to get source", PgConnError)))
                 ELSE IF found # {}
                 THEN [ac EXCEPT ![p].pc = "find_hash",
                                 ![p].sourceID = (CHOOSE r \in found : TRUE).id]
                 ELSE [ac EXCEPT ![p].pc = "create_source"]
    /\ UNCHANGED <<sources, content, srcSeq, contentSeq, cfg, acHist>>
    /\ UNCHANGED jobVars
    /\ UNCHANGED <<fbVars, pipeVars>>

\* GetOrCreateSource: s.primaryStore.CreateSource
AcCreateSource(p, dbOk) ==
    /\ ac[p].pc = "create_source"
    /\ IF ~dbOk
       THEN /\ ac' = Failed(p, Wrap("get/create source", Wrap("failed to create source",
                                   Wrap("failed to insert source", PgConnError))))
            /\ UNCHANGED <<sources, srcSeq>>
       ELSE IF SourceByName(ac[p].name) # {}
       THEN /\ ac' = Failed(p, Wrap("get/create source", Wrap("failed to create source",
                                   Wrap("source with name already exists", ErrDuplicate))))
            /\ UNCHANGED <<sources, srcSeq>>
       ELSE /\ sources' = sources \cup {[id |-> srcSeq + 1, name |-> ac[p].name]}
            /\ srcSeq' = srcSeq + 1
            /\ ac' = [ac EXCEPT ![p].pc = "find_hash", ![p].sourceID = srcSeq + 1]
    /\ UNCHANGED <<content, contentSeq, cfg, acHist>>
    /\ UNCHANGED jobVars
    /\ UNCHANGED <<fbVars, pipeVars>>

\* CreateContentIfNotExists: s.FindContentByHash
AcFindContentByHash(p, dbOk) ==
    /\ ac[p].pc = "find_hash"
    /\ LET existing == ContentByHash(calculateHash(ac[p].body))
       IN  ac' = IF ~dbOk
                 THEN Failed(p, Wrap("create content",
                                     Wrap("failed checking for existing content by hash",
                                          Wrap("failed to find content by hash", PgConnError))))
                 ELSE IF existing # {}
                 THEN LET row == CHOOSE r \in existing : TRUE
                      IN  [ac EXCEPT ![p].contentID = row.id,
                                     ![p].sourceID = row.source_id,
                                     ![p].existed = TRUE,
                                     ![p].pc = IF Enriches(TRUE)
                                               THEN "enqueue_embedding" ELSE "done"]
                 ELSE [ac EXCEPT ![p].pc = "create_content"]
    /\ UNCHANGED <<sources, content, srcSeq, contentSeq, cfg, acHist>>
    /\ UNCHANGED jobVars
    /\ UNCHANGED <<fbVars, pipeVars>>

\* the row INSERT INTO content stores; is_embedded and embedding_id take
\* their column defaults
NewContentRow(id, sourceID, body, now) ==
    [id |-> id, source_id |-> sourceID, body |-> body,
     content_hash |-> calculateHash(body), summary |-> NullText,
     is_embedded |-> FALSE, embedding_id |-> NullText, updated_at |-> now]

\* CreateContentIfNotExists: s.CreateContent and the handling of its error
AcCreateContent(p, dbOk) ==
    /\ ac[p].pc = "create_content"
    /\ LET hash == calculateHash(ac[p].body)
           err == CreateContentErr(dbOk, ac[p].sourceID, hash)
       IN  IF err = Nil
           THEN /\ content' = content \cup
                        {NewContentRow(contentSeq + 1, ac[p].sourceID, ac[p].body, jobClock)}
                /\ contentSeq' = contentSeq + 1
                /\ ac' = [ac EXCEPT ![p].contentID = contentSeq + 1,
                                    ![p].existed = FALSE,
                                    ![p].pc = IF Enriches(FALSE)
                                              THEN "enqueue_embedding" ELSE "done"]
                /\ acHist' = [acHist EXCEPT ![p].inserted = TRUE]
           ELSE /\ UNCHANGED <<content, contentSeq>>
                /\ acHist' = [acHist EXCEPT
                        ![p].lostRace = dbOk /\ ContentByHash(hash) # {}]
                /\ IF IsUniqueViolation(err)
                   THEN \* re-fetch the row the other caller inserted
                        LET row == CHOOSE r \in ContentByHash(hash) : TRUE
                        IN  ac' = [ac EXCEPT ![p].contentID = row.id,
                                             ![p].sourceID = row.source_id,
                                             ![p].existed = TRUE,
                                             ![p].pc = IF Enriches(TRUE)
                                                       THEN "enqueue_embedding" ELSE "done"]
                   ELSE ac' = Failed(p, Wrap("create content",
                                             Wrap("failed to create new content", err)))
    /\ UNCHANGED <<sources, srcSeq, cfg>>
    /\ UNCHANGED jobVars
    /\ UNCHANGED <<fbVars, pipeVars>>

\* json.Marshal of the embedding and of the summarization payload
encodePayload(contentID) == <<"content_id", contentID>>
summarizationPayload(contentID) == <<"ContentID", contentID>>

\* enqueueEmbeddingJobIfPossible: cs.jobs.EnqueueEmbeddingJob
AcEnqueueEmbedding(p, brokerOk, id, dbOk, now) ==
    /\ ac[p].pc = "enqueue_embedding"
    /\ IF cfg.jobs
       THEN /\ Enqueue(TypeEmbeddingJob, encodePayload(ac[p].contentID), "embeddings",
                       "content", ac[p].contentID, brokerOk, id, dbOk, now)
            /\ acHist' = [acHist EXCEPT ![p].jobs = IF brokerOk THEN @ + 1 ELSE @]
       ELSE /\ ~brokerOk /\ ~dbOk /\ id = NilUUID /\ now = jobClock
            /\ UNCHANGED jobVars
            /\ UNCHANGED acHist
    /\ ac' = [ac EXCEPT ![p].pc = "auto_tag"]
    /\ UNCHANGED <<sources, content, srcSeq, contentSeq, cfg>>
    /\ UNCHANGED <<fbVars, pipeVars>>

\* the auto-tagging arm of AddContent: CategorizeContent, then
\* cs.tags.GetOrCreateTagsByName and cs.tags.AddTagsToContent for its tags; the
\* suggested category is not used
AcAutoTag(p, catOk, res, created, added) ==
    /\ ac[p].pc = "auto_tag"
    /\ created \in 0..Len(res.Tags)
    /\ added \in 0..Len(res.Tags)
    /\ IF ~cfg.autoApplyTags
       THEN /\ ~catOk /\ res = NoCategories
            /\ ac' = [ac EXCEPT ![p].pc = "enqueue_summary"]
            /\ UNCHANGED <<tags, contentTags>>
       ELSE IF ~catOk
       THEN /\ res = NoCategories
            /\ ac' = [ac EXCEPT ![p].pc = "enqueue_summary", ![p].catErr = CategorizerError]
            /\ UNCHANGED <<tags, contentTags>>
       ELSE IF Len(res.Tags) = 0
       THEN /\ ac' = [ac EXCEPT ![p].pc = "enqueue_summary", ![p].res = res]
            /\ UNCHANGED <<tags, contentTags>>
       ELSE LET got == GetOrCreateTagsByName(tags, res.Tags, created)
                put == AddTagsToContent(contentTags, ac[p].contentID, got.tags, added)
            IN  /\ tags' = got.rows
                /\ IF got.err = Nil
                   THEN /\ contentTags' = put.rows
                        /\ ac' = [ac EXCEPT ![p].pc = "enqueue_summary", ![p].res = res,
                                            ![p].tagErr = put.err]
                   ELSE /\ added = 0
                        /\ UNCHANGED contentTags
                        /\ ac' = [ac EXCEPT ![p].pc = "enqueue_summary", ![p].res = res,
                                            ![p].tagErr = got.err]
    /\ UNCHANGED <<collections, collectionContent, applyCalls>>
    /\ UNCHANGED <<sources, content, srcSeq, contentSeq, cfg, acHist>>
    /\ UNCHANGED <<fbVars, jobVars, wkVars, stVars, bkVars, ckVars, srVars, czVars, caVars>>

\* the summarization arm of AddContent: cs.jobs.Enqueue
AcEnqueueSummarization(p, brokerOk, id, dbOk, now) ==
    /\ ac[p].pc = "enqueue_summary"
    /\ IF cfg.summarization /\ cfg.jobs
       THEN /\ Enqueue(TypeSummarizationJob, summarizationPayload(ac[p].contentID),
                       IF cfg.summarizationQueue THEN "summarization" ELSE "default",
                       "content", ac[p].contentID, brokerOk, id, dbOk, now)
            /\ acHist' = [acHist EXCEPT ![p].jobs = IF brokerOk THEN @ + 1 ELSE @]
       ELSE /\ ~brokerOk /\ ~dbOk /\ id = NilUUID /\ now = jobClock
            /\ UNCHANGED jobVars
            /\ UNCHANGED acHist
    /\ ac' = [ac EXCEPT ![p].pc = "done"]
    /\ UNCHANGED <<sources, content, srcSeq, contentSeq, cfg>>
    /\ UNCHANGED <<fbVars, pipeVars>>

\* CollectionService.GetOrCreateCollection: GetCollectionByName, and
\* CreateCollection when no row has the name
GetOrCreateCollection(rows, name, getOk, createOk) ==
    IF ~getOk THEN [rows |-> rows, id |-> "", err |-> Wrap("failed to get collection", PgConnError)]
    ELSE IF name \in rows THEN [rows |-> rows, id |-> name, err |-> Nil]
    ELSE IF ~createOk
    THEN [rows |-> rows, id |-> "", err |-> Wrap("could not create collection", PgConnError)]
    ELSE [rows |-> rows \cup {name}, id |-> name, err |-> Nil]

\* AddContentToCollection: INSERT INTO collection_content ... ON CONFLICT DO NOTHING
AddContentToCollection(rows, collectionID, contentID, dbOk) ==
    IF dbOk THEN rows \cup {[collection_id |-> collectionID, content_id |-> contentID]}
    ELSE rows

\* CategorizationService.ApplyCategories for a stored content: TagContent for
\* the tags, GetOrCreateCollection and AddContent for the category; every
\* failure is logged and the call returns nil
ApplyCategories(contentID, cats, autoApply, created, added, getOk, createOk, addOk) ==
    /\ applyCalls < MaxApplyCalls
    /\ applyCalls' = applyCalls + 1
    /\ \E r \in content : r.id = contentID
    /\ created \in 0..Len(cats.Tags)
    /\ added \in 0..Len(cats.Tags)
    /\ IF ~autoApply
       THEN /\ created = 0 /\ added = 0 /\ ~getOk /\ ~createOk /\ ~addOk
            /\ UNCHANGED <<tags, contentTags, collections, collectionContent>>
       ELSE /\ LET got == GetOrCreateTagsByName(tags, cats.Tags, created)
                   put == AddTagsToContent(contentTags, contentID, got.tags, added)
               IN  /\ tags' = got.rows
                   /\ IF got.err = Nil
                      THEN contentTags' = put.rows
                      ELSE added = 0 /\ UNCHANGED contentTags
            /\ IF cats.Category = ""
               THEN /\ ~getOk /\ ~createOk /\ ~addOk
                    /\ UNCHANGED <<collections, collectionContent>>
               ELSE LET collection == GetOrCreateCollection(collections, cats.Category,
                                                           getOk, createOk)
                    IN  /\ collections' = collection.rows
                        /\ (getOk /\ cats.Category \in collections) => ~createOk
                        /\ ~getOk => ~createOk
                        /\ IF collection.err = Nil
                           THEN collectionContent' = AddContentToCollection(
                                    collectionContent, collection.id, contentID, addOk)
                           ELSE ~addOk /\ UNCHANGED collectionContent
    /\ UNCHANGED <<fbVars, jobVars, ingestVars, wkVars, stVars, bkVars, ckVars, srVars, czVars, caVars>>

\* AddContent calls from the CLI whose source and content statements succeed,
\* beside one ApplyCategories call
CategorizeNext ==
    \/ \E p \in Callers :
        \/ \E body \in Bodies : AcBegin(p, body, "cli", TRUE)
        \/ AcGetSourceByName(p, TRUE)
        \/ AcCreateSource(p, TRUE)
        \/ AcFindContentByHash(p, TRUE)
        \/ AcCreateContent(p, TRUE)
        \/ AcEnqueueEmbedding(p, FALSE, NilUUID, FALSE, jobClock)
        \/ \E catOk \in BOOLEAN, res \in CategorizationResults, created, added \in 0..MaxSuggestedTags :
                AcAutoTag(p, catOk, res, created, added)
        \/ AcEnqueueSummarization(p, FALSE, NilUUID, FALSE, jobClock)
    \/ \E contentID \in 1..Cardinality(Bodies), cats \in CategorizationResults, autoApply \in BOOLEAN, created, added \in 0..MaxSuggestedTags, getOk, createOk, addOk \in BOOLEAN :
            ApplyCategories(contentID, cats, autoApply, created, added, getOk, createOk, addOk)

\* the content service is built with auto_apply_tags on and a categorization
\* service, and without a job client
CategorizeIngestInit ==
    /\ sources = {}
    /\ content = {}
    /\ srcSeq = 0
    /\ contentSeq = 0
    /\ cfg = [jobs |-> FALSE, summarization |-> FALSE, summarizationQueue |-> FALSE,
              autoApplyTags |-> TRUE]
    /\ ac = [p \in Callers |-> InitAc]
    /\ acHist = [p \in Callers |-> InitAcHist]

\* the categorization of call p went through, tags included, and suggested a
\* category for the content the call created
Categorized(p) ==
    /\ ac[p].pc = "done" /\ ac[p].err = Nil /\ ~ac[p].existed
    /\ cfg.autoApplyTags
    /\ ac[p].catErr = Nil /\ ac[p].tagErr = Nil
    /\ ac[p].res.Category # ""

\* C25: when AddContent has stored a new content with auto-apply-tags on and
\* its categorization suggested a category, then on return a collection of that
\* name exists and holds the content, and every suggested tag is on the content.
C25_CategoryBecomesCollection ==
    \A p \in Callers :
        Categorized(p) =>
            /\ ac[p].res.Category \in collections
            /\ [collection_id |-> ac[p].res.Category, content_id |-> ac[p].contentID]
                    \in collectionContent
            /\ \A i \in 1..Len(ac[p].res.Tags) :
                    [content_id |-> ac[p].contentID, tag_id |-> ac[p].res.Tags[i]]
                        \in contentTags

CatIdle ==
    /\ tags = {}
    /\ contentTags = {}
    /\ collections = {}
    /\ collectionContent = {}
    /\ applyCalls = 0

IngestInit ==
    /\ sources = {}
    /\ content = {}
    /\ srcSeq = 0
    /\ contentSeq = 0
    /\ cfg \in [jobs : BOOLEAN, summarization : BOOLEAN, summarizationQueue : BOOLEAN,
               autoApplyTags : {FALSE}]
    /\ ac = [p \in Callers |-> InitAc]
    /\ acHist = [p \in Callers |-> InitAcHist]

IngestIdle ==
    /\ sources = {}
    /\ content = {}
    /\ srcSeq = 0
    /\ contentSeq = 0
    /\ cfg = [jobs |-> FALSE, summarization |-> FALSE, summarizationQueue |-> FALSE,
              autoApplyTags |-> FALSE]
    /\ ac = [p \in Callers |-> InitAc]
    /\ acHist = [p \in Callers |-> InitAcHist]

IngestNext ==
    \E p \in Callers :
        \/ \E body \in Bodies, name \in SourceNames, procOk \in BOOLEAN :
                AcBegin(p, body, name, procOk)
        \/ \E dbOk \in BOOLEAN : AcGetSourceByName(p, dbOk)
        \/ \E dbOk \in BOOLEAN : AcCreateSource(p, dbOk)
        \/ \E dbOk \in BOOLEAN : AcFindContentByHash(p, dbOk)
        \/ \E dbOk \in BOOLEAN : AcCreateContent(p, dbOk)
        \/ \E brokerOk \in BOOLEAN, id \in TaskIDs \cup {NilUUID}, dbOk \in BOOLEAN,
              now \in 1..MaxClock : AcEnqueueEmbedding(p, brokerOk, id, dbOk, now)
        \/ \E catOk \in BOOLEAN, res \in CategorizationResults, created, added \in 0..MaxSuggestedTags :
                AcAutoTag(p, catOk, res, created, added)
        \/ \E brokerOk \in BOOLEAN, id \in TaskIDs \cup {NilUUID}, dbOk \in BOOLEAN,
              now \in 1..MaxClock : AcEnqueueSummarization(p, brokerOk, id, dbOk, now)

(***************************************************************************)
(* Properties of the ingestion path                                        *)
(***************************************************************************)
\* C1: two callers racing on one body leave one content row with the body's
\* hash; the caller that inserted it gets existed=false, and the caller whose
\* insert lost the uniqueness race gets existed=true, the identity of the
\* winning row, and no error.
C1_RaceLoserSeesExisting ==
    /\ \A b \in Bodies : Cardinality(ContentByHash(calculateHash(b))) <= 1
    /\ \A p \in Callers :
        /\ (ac[p].pc = "done" /\ acHist[p].inserted) => ~ac[p].existed /\ ac[p].err = Nil
        /\ (ac[p].pc = "done" /\ acHist[p].lostRace) =>
                /\ ac[p].err = Nil
                /\ ac[p].existed
                /\ \E r \in ContentByHash(calculateHash(ac[p].body)) : r.id = ac[p].contentID

\* the call failed on its input or on a store statement that did not go through
EnvFailure(err) == err = <<"failed to process input">> \/ ErrorsAsPg(err, PgConnError)

\* C28: two concurrent AddContent calls with different bodies that name the same
\* source, not stored before, both succeed, and afterwards exactly one source row
\* has that name and owns both contents; neither fails because the other created
\* the source between its lookup and its insert.
C28_SourceRaceBothSucceed ==
    \A p, q \in Callers :
        (/\ p # q
         /\ ac[p].pc = "done" /\ ac[q].pc = "done"
         /\ ac[p].name = ac[q].name /\ ac[p].name # ""
         /\ ac[p].body # ac[q].body
         /\ ~EnvFailure(ac[p].err) /\ ~EnvFailure(ac[q].err)) =>
            /\ ac[p].err = Nil /\ ac[q].err = Nil
            /\ Cardinality(SourceByName(ac[p].name)) = 1
            /\ \A r \in content :
                    r.id \in {ac[p].contentID, ac[q].contentID} =>
                        \E src \in SourceByName(ac[p].name) : r.source_id = src.id

\* C8: an AddContent call for a body that is already stored enqueues no job,
\* and when it returns without error it returns existed=true and the identity
\* of the stored content.
C8_DuplicateEnqueuesNothing ==
    \A p \in Callers :
        acHist[p].dupAtStart =>
            /\ acHist[p].jobs = 0
            /\ (ac[p].pc = "done" /\ ac[p].err = Nil) =>
                    /\ ac[p].existed
                    /\ ac[p].contentID = acHist[p].storedID

C8_Witness ==
    \E p \in Callers :
        /\ acHist[p].dupAtStart /\ ac[p].pc = "done" /\ ac[p].err = Nil
        /\ ac[p].existed /\ ac[p].contentID = acHist[p].storedID
        /\ \E t \in broker : t.type = TypeEmbeddingJob


(***************************************************************************)
(* Content and chunk rows: GetContent, UpdateContent,                      *)
(* UpdateContentEmbeddingStatus, AddEmbedding, DeleteEmbeddingsByContentID *)
(***************************************************************************)
StoredBodies == <<"hello world", "quantum">>    \* the contents ingested at the start
ContentIDs == DOMAIN StoredBodies
PendingIDs == {1}       \* the contents whose enrichment has not run yet
NoRow == [id |-> 0]

ContentByID(rows, id) == {r \in rows : r.id = id}

\* GetContent: the row read, or store.ErrNotFound
GetContent(rows, id, dbOk) ==
    IF ~dbOk
    THEN [row |-> NoRow, err |-> Wrap("failed to get content by id", PgConnError)]
    ELSE IF ContentByID(rows, id) = {}
    THEN [row |-> NoRow, err |-> ErrNotFound]
    ELSE [row |-> CHOOSE r \in ContentByID(rows, id) : TRUE, err |-> Nil]

\* UPDATE content SET every column of the row held in memory
UpdatedColumnsWholeRow(r, c, now) ==
    [r EXCEPT !.body = c.body, !.content_hash = calculateHash(c.body),
              !.summary = c.summary, !.updated_at = now,
              !.is_embedded = c.is_embedded, !.embedding_id = c.embedding_id]

\* UPDATE content SET title, body, content_hash, ..., summary, updated_at
UpdatedColumns(r, c, now) ==
    [r EXCEPT !.body = c.body, !.content_hash = calculateHash(c.body),
              !.summary = c.summary, !.updated_at = now]

\* UpdateContent: the rows afterwards and the error returned
UpdateContent(rows, c, dbOk, now) ==
    IF ~dbOk
    THEN [rows |-> rows, err |-> Wrap("failed to update content", PgConnError)]
    ELSE IF ContentByID(rows, c.id) = {}
    THEN [rows |-> rows, err |-> ErrNotFound]
    ELSE IF \E r \in rows : r.id # c.id /\ r.content_hash = calculateHash(c.body)
    THEN [rows |-> rows, err |-> Wrap("content with hash already exists", ErrDuplicate)]
    ELSE [rows |-> {IF r.id = c.id THEN UpdatedColumns(r, c, now) ELSE r : r \in rows},
          err |-> Nil]

\* UpdateContentEmbeddingStatus: the rows afterwards and the error returned
UpdateContentEmbeddingStatus(rows, contentID, embeddingID, isEmbedded, dbOk, now) ==
    IF ~dbOk
    THEN [rows |-> rows, err |-> Wrap("failed to update embedding status", PgConnError)]
    ELSE IF ContentByID(rows, contentID) = {}
    THEN [rows |-> rows, err |-> ErrNotFound]
    ELSE [rows |-> {IF r.id = contentID
                    THEN [r EXCEPT !.is_embedded = isEmbedded,
                                   !.embedding_id = embeddingID, !.updated_at = now]
                    ELSE r : r \in rows},
          err |-> Nil]

\* content_id BIGINT NOT NULL REFERENCES content(id)
ReferencesContent(rows, contentID) == ContentByID(rows, contentID) # {}

\* ... ON DELETE CASCADE: the chunk rows left once content rows are gone
OnDeleteCascade(chunks, rows) == {k \in chunks : ReferencesContent(rows, k.content_id)}

\* AddEmbedding: the chunk rows afterwards and the error returned
AddEmbedding(chunks, rows, id, contentID, dbOk) ==
    IF ~dbOk
    THEN [chunks |-> chunks, err |-> Wrap("add embedding", PgConnError)]
    ELSE IF ~ReferencesContent(rows, contentID)
    THEN [chunks |-> chunks, err |-> Wrap("add embedding", ErrForeignKeyViolation)]
    ELSE [chunks |-> chunks \cup {[id |-> id, content_id |-> contentID]}, err |-> Nil]

\* DeleteEmbeddingsByContentID: the chunk rows afterwards and the error returned
DeleteEmbeddingsByContentID(chunks, contentID, dbOk) ==
    IF ~dbOk
    THEN [chunks |-> chunks, err |-> Wrap("delete embeddings", PgConnError)]
    ELSE [chunks |-> {k \in chunks : k.content_id # contentID}, err |-> Nil]

\* the content store's DeleteContent: the rows afterwards and the error returned
StoreDeleteContent(rows, id, dbOk) ==
    IF ~dbOk
    THEN [rows |-> rows, err |-> Wrap("delete content: failed to delete content", PgConnError)]
    ELSE IF ContentByID(rows, id) = {}
    THEN [rows |-> rows, err |-> ErrNotFound]
    ELSE [rows |-> {r \in rows : r.id # id}, err |-> Nil]

(***************************************************************************)
(* ContentService.DeleteContent                                            *)
(***************************************************************************)
\* the store calls of DeleteContent, content row first
DeleteOrderContentFirst == <<"content", "embeddings">>

\* the store calls of DeleteContent, in the order it makes them
DeleteOrder == <<"embeddings", "content">>

InitDc == [pc |-> "idle", calls |-> <<>>, err |-> Nil]

\* deleteEmbeddingsIfPresent and deleteContentFromStore, one store call a step;
\* an error of either ends the call
DcStoreCall(c, dbOk) ==
    /\ dc[c].pc # "done"
    /\ LET target == DeleteOrder[Len(dc[c].calls) + 1]
           emb == DeleteEmbeddingsByContentID(embeddings, c, dbOk)
           del == StoreDeleteContent(content, c, dbOk)
           err == IF target = "embeddings" THEN emb.err ELSE del.err
           calls == Append(dc[c].calls, target)
       IN  /\ content' = IF target = "content" THEN del.rows ELSE content
           /\ embeddings' = IF target = "embeddings" THEN emb.chunks
                            ELSE OnDeleteCascade(embeddings, del.rows)
           /\ dc' = [dc EXCEPT ![c].calls = calls,
                       ![c].err = IF err = Nil THEN Nil ELSE Wrap("DeleteContent", err),
                       ![c].pc = IF err # Nil \/ Len(calls) = Len(DeleteOrder)
                                 THEN "done" ELSE "running"]
    /\ UNCHANGED <<embSeq, ew, sw>>
    /\ UNCHANGED <<fbVars, jobVars, ingestRest, wkVars, bkVars, ckVars, srVars, catVars, czVars, caVars>>

(***************************************************************************)
(* The embedding worker: Fetcher, Storer, Updater                          *)
(***************************************************************************)
InitEw == [pc |-> "none", stored |-> 0, rep |-> NullText, at |-> 0]

\* Fetcher.GetContent
EwGetContent(c, dbOk) ==
    /\ ew[c].pc = "none"
    /\ LET out == GetContent(content, c, dbOk)
       IN  ew' = [ew EXCEPT ![c].pc = IF out.err = Nil THEN "fetched" ELSE "failed"]
    /\ UNCHANGED <<embeddings, embSeq, sw, dc>>
    /\ UNCHANGED <<fbVars, jobVars, ingestVars, wkVars, bkVars, ckVars, srVars, catVars, czVars, caVars>>

\* Storer.AddEmbedding, once per chunk; the first chunk is the representative
EwAddEmbedding(c, dbOk) ==
    /\ ew[c].pc = "fetched"
    /\ ew[c].stored < MaxChunks
    /\ LET id == <<"chunk", embSeq + 1>>
           out == AddEmbedding(embeddings, content, id, c, dbOk)
       IN  /\ embeddings' = out.chunks
           /\ embSeq' = embSeq + 1
           /\ ew' = IF out.err # Nil THEN [ew EXCEPT ![c].pc = "failed"]
                    ELSE [ew EXCEPT ![c].stored = @ + 1,
                                    ![c].rep = IF ew[c].stored = 0 THEN id ELSE @]
    /\ UNCHANGED <<sw, dc>>
    /\ UNCHANGED <<fbVars, jobVars, ingestVars, wkVars, bkVars, ckVars, srVars, catVars, czVars, caVars>>

\* Updater.UpdateContentEmbeddingStatus(contentID, representative, true)
EwUpdateStatus(c, dbOk, now) ==
    /\ ew[c].pc = "fetched"
    /\ ew[c].stored >= 1
    /\ now \in Nows
    /\ LET out == UpdateContentEmbeddingStatus(content, c, ew[c].rep, TRUE, dbOk, now)
       IN  /\ content' = out.rows
           /\ ew' = [ew EXCEPT ![c].pc = IF out.err = Nil THEN "done" ELSE "failed",
                               ![c].at = now]
    /\ jobClock' = now
    /\ UNCHANGED <<embeddings, embSeq, sw, dc>>
    /\ UNCHANGED <<fbVars, jobRest, ingestRest, wkVars, bkVars, ckVars, srVars, catVars, czVars, caVars>>

(***************************************************************************)
(* The summary writer: ContentService.summarizeAndTagContent               *)
(***************************************************************************)
SummaryOf(c) == <<"summary", c>>
InitSw == [pc |-> "none", snap |-> NoRow, at |-> 0]

\* the content the writer holds in memory
SwSnapshot(c, dbOk) ==
    /\ sw[c].pc = "none"
    /\ LET out == GetContent(content, c, dbOk)
       IN  sw' = [sw EXCEPT ![c].pc = IF out.err = Nil THEN "read" ELSE "failed",
                            ![c].snap = out.row]
    /\ UNCHANGED <<embeddings, embSeq, ew, dc>>
    /\ UNCHANGED <<fbVars, jobVars, ingestVars, wkVars, bkVars, ckVars, srVars, catVars, czVars, caVars>>

\* content.Summary = &summary; cs.contents.UpdateContent(ctx, content)
SwUpdateContent(c, dbOk, now) ==
    /\ sw[c].pc = "read"
    /\ now \in Nows
    /\ LET out == UpdateContent(content, [sw[c].snap EXCEPT !.summary = SummaryOf(c)],
                                dbOk, now)
       IN  /\ content' = out.rows
           /\ sw' = [sw EXCEPT ![c].pc = IF out.err = Nil THEN "done" ELSE "failed",
                               ![c].at = now]
    /\ jobClock' = now
    /\ UNCHANGED <<embeddings, embSeq, ew, dc>>
    /\ UNCHANGED <<fbVars, jobRest, ingestRest, wkVars, bkVars, ckVars, srVars, catVars, czVars, caVars>>

StIdle ==
    /\ embeddings = {}
    /\ embSeq = 0
    /\ ew = [c \in ContentIDs |-> InitEw]
    /\ sw = [c \in ContentIDs |-> InitSw]
    /\ dc = [c \in ContentIDs |-> InitDc]

\* the tables once the stored bodies have been ingested under source "test"
StoredInit ==
    /\ sources = {[id |-> 1, name |-> "test"]}
    /\ srcSeq = 1
    /\ content = {IF c \in PendingIDs
                   THEN NewContentRow(c, 1, StoredBodies[c], 1)
                   ELSE [NewContentRow(c, 1, StoredBodies[c], 1) EXCEPT
                            !.is_embedded = TRUE, !.embedding_id = <<"chunk", c>>] :
                    c \in ContentIDs}
    /\ contentSeq = Len(StoredBodies)
    /\ cfg = [jobs |-> FALSE, summarization |-> FALSE, summarizationQueue |-> FALSE,
              autoApplyTags |-> FALSE]
    /\ ac = [p \in Callers |-> InitAc]
    /\ acHist = [p \in Callers |-> InitAcHist]

\* the chunk rows of the contents that are embedded at the start
StInit ==
    /\ embeddings = {[id |-> <<"chunk", c>>, content_id |-> c] : c \in ContentIDs \ PendingIDs}
    /\ embSeq = Len(StoredBodies)
    /\ ew = [c \in ContentIDs |-> InitEw]
    /\ sw = [c \in ContentIDs |-> InitSw]
    /\ dc = [c \in ContentIDs |-> InitDc]

StoreNext ==
    \/ \E c \in ContentIDs, dbOk \in BOOLEAN : DcStoreCall(c, dbOk)
    \/ \E c \in PendingIDs :
        \/ \E dbOk \in BOOLEAN : EwGetContent(c, dbOk)
        \/ \E dbOk \in BOOLEAN : EwAddEmbedding(c, dbOk)
        \/ \E dbOk \in BOOLEAN, now \in 1..MaxClock : EwUpdateStatus(c, dbOk, now)
        \/ \E dbOk \in BOOLEAN : SwSnapshot(c, dbOk)
        \/ \E dbOk \in BOOLEAN, now \in 1..MaxClock : SwUpdateContent(c, dbOk, now)

(***************************************************************************)
(* Properties of the two stores                                            *)
(***************************************************************************)
ChunksOf(c) == {k \in embeddings : k.content_id = c}
Deleting == \E c \in ContentIDs : dc[c].pc = "running"

C13_EmbeddedHasChunks ==
    ~Deleting =>
        \A r \in content :
            (r.is_embedded /\ r.embedding_id # NullText) => ChunksOf(r.id) # {}

\* the later of two instants
Later(a, b) == IF a >= b THEN a ELSE b

DefaultStrategy == [MaxAttempts |-> 3, BaseDelayMs |-> 100]
AppStrategy == [MaxAttempts |-> 3, BaseDelayMs |-> 200]

\* the strategies NextBackoff is applied to
Strategies ==
    {DefaultStrategy, AppStrategy} \cup
    [MaxAttempts : 0..MaxBackoffAttempts, BaseDelayMs : {1, 100, 200, 7500, 30000}]

BkIdle == bk = [pc |-> "idle", s |-> DefaultStrategy, attempt |-> 0, backoff |-> 0]

BkInit ==
    \E s \in Strategies, attempt \in 0..(MaxBackoffAttempts + 1) :
        bk = [pc |-> "call", s |-> s, attempt |-> attempt, backoff |-> 0]

\* backoffMs := s.RetryStrategy.NextBackoff(attempt)
BkNextBackoff ==
    /\ bk.pc = "call"
    /\ bk' = [bk EXCEPT !.pc = "returned", !.backoff = NextBackoff(bk.s, bk.attempt)]
    /\ UNCHANGED <<fbVars, jobVars, ingestVars, wkVars, stVars, ckVars, srVars, catVars, czVars, caVars>>

BackoffNext == BkNextBackoff

\* the smaller of two delays
Min(a, b) == IF a <= b THEN a ELSE b

\* C15: for 0 <= attempt < MaxAttempts NextBackoff returns
\* min(BaseDelayMs * 2^attempt, 30000), which is neither negative nor above
\* 30000; for attempt >= MaxAttempts it returns a negative value.
C15_CappedExponentialBackoff ==
    bk.pc = "returned" =>
        /\ bk.attempt < bk.s.MaxAttempts =>
                /\ bk.backoff = Min(bk.s.BaseDelayMs * (2 ^ bk.attempt), 30000)
                /\ bk.backoff >= 0
                /\ bk.backoff <= 30000
        /\ bk.attempt >= bk.s.MaxAttempts => bk.backoff < 0

C15_Witness ==
    /\ bk.pc = "returned"
    /\ bk.s = [MaxAttempts |-> 3, BaseDelayMs |-> 30000]
    /\ bk.attempt = 2
    /\ bk.backoff = 30000

(***************************************************************************)
(* Chunking: texts                                                         *)
(*                                                                         *)
(* A text is a sequence of symbols: a word, or the newline character.      *)
(* Adjacent words are separated by one space.                              *)
(***************************************************************************)
NL == "\n"
HeadingMark == "##"
Words == {"a", "b.", HeadingMark}
\* words the sentence tokenizer ends a sentence after
SentenceFinal == {"b."}
Symbols == Words \cup {NL}

DefaultMaxTokens == 200
DefaultOverlap == 50

IsWord(x) == x # NL

\* strings.Fields
Fields(text) == SelectSeq(text, IsWord)

\* strings.TrimSpace
TrimSpace(text) ==
    LET ws == {i \in 1..Len(text) : IsWord(text[i])}
    IN  IF ws = {} THEN <<>>
        ELSE SubSeq(text, CHOOSE i \in ws : \A j \in ws : i <= j, CHOOSE i \in ws : \A j \in ws : j <= i)

\* the positions where sep occurs in text
SepAt(text, sep) == {i \in 1..(Len(text) - Len(sep) + 1) : SubSeq(text, i, i + Len(sep) - 1) = sep}

RECURSIVE Split(_, _)
\* strings.Split
Split(text, sep) ==
    IF SepAt(text, sep) = {} THEN <<text>>
    ELSE LET i == CHOOSE k \in SepAt(text, sep) : \A j \in SepAt(text, sep) : k <= j
         IN  <<SubSeq(text, 1, i - 1)>> \o Split(SubSeq(text, i + Len(sep), Len(text)), sep)

RECURSIVE Join(_)
\* strings.Join(elems, " ")
Join(elems) == IF elems = <<>> THEN <<>> ELSE Head(elems) \o Join(Tail(elems))

\* estimateTokens
estimateTokens(text) == Len(Fields(text))

RECURSIVE Tokenize(_)
\* the sentence tokenizer: a sentence ends after a sentence-final word
Tokenize(text) ==
    LET ends == {i \in 1..Len(text) : text[i] \in SentenceFinal}
    IN  IF text = <<>> THEN <<>>
        ELSE IF ends = {} THEN <<text>>
        ELSE LET i == CHOOSE k \in ends : \A j \in ends : k <= j
             IN  <<SubSeq(text, 1, i)>> \o Tokenize(SubSeq(text, i + 1, Len(text)))

RECURSIVE OverlapSentences(_, _, _, _, _)
\* the backwards loop of calculateSentenceOverlap
OverlapSentences(sents, i, overlapSentences, accumulatedTokens, overlapTokens) ==
    IF i = 0 THEN overlapSentences
    ELSE LET sentenceText == TrimSpace(sents[i])
             sentenceTokens == estimateTokens(sentenceText)
         IN  IF sentenceText = <<>>
             THEN OverlapSentences(sents, i - 1, overlapSentences, accumulatedTokens, overlapTokens)
             ELSE IF accumulatedTokens + sentenceTokens <= overlapTokens
             THEN OverlapSentences(sents, i - 1, <<sentenceText>> \o overlapSentences, accumulatedTokens + sentenceTokens, overlapTokens)
             ELSE IF overlapSentences = <<>> THEN <<sentenceText>>
             ELSE overlapSentences

calculateSentenceOverlap(text, overlapTokens) ==
    IF overlapTokens <= 0 \/ text = <<>> THEN <<>>
    ELSE Join(OverlapSentences(Tokenize(text), Len(Tokenize(text)), <<>>, 0, overlapTokens))

(***************************************************************************)
(* Chunking: the chunkers                                                  *)
(***************************************************************************)
\* maxTokens <= 0 selects the default
NormMaxTokens(maxTokens) == IF maxTokens <= 0 THEN DefaultMaxTokens ELSE maxTokens

\* the overlap is taken as given, however large
ClampOverlapOff(maxTokens, overlap) == overlap

\* overlap >= maxTokens is adjusted to maxTokens - 1
ClampOverlap(maxTokens, overlap) == IF overlap >= maxTokens THEN maxTokens - 1 ELSE overlap

\* a negative overlap selects the default; the result is below maxTokens
NormOverlap(maxTokens, overlap) == ClampOverlap(NormMaxTokens(maxTokens), IF overlap < 0 THEN DefaultOverlap ELSE overlap)

\* a chunk; overlapTokens records how many of its leading tokens are overlap text
Chunk(text, metadata, overlapTokens) == [Text |-> text, Metadata |-> metadata, overlapTokens |-> overlapTokens]

RECURSIVE WordChunks(_, _)
\* 3. a line too long is split by words, maxTokens at a time
WordChunks(words, maxTokens) ==
    IF words = <<>> THEN <<>>
    ELSE LET endIndex == Min(maxTokens, Len(words))
         IN  <<SubSeq(words, 1, endIndex)>> \o WordChunks(SubSeq(words, endIndex + 1, Len(words)), maxTokens)

RECURSIVE LinePieces(_, _)
\* 2. a paragraph too long is split by lines
LinePieces(lines, maxTokens) ==
    IF lines = <<>> THEN <<>>
    ELSE LET line == TrimSpace(Head(lines))
             rest == LinePieces(Tail(lines), maxTokens)
         IN  IF line = <<>> THEN rest
             ELSE IF estimateTokens(line) <= maxTokens THEN <<line>> \o rest
             ELSE WordChunks(Fields(line), maxTokens) \o rest

RECURSIVE ParagraphPieces(_, _)
\* 1. the pieces of the paragraphs, before overlap is applied
ParagraphPieces(paragraphs, maxTokens) ==
    IF paragraphs = <<>> THEN <<>>
    ELSE LET para == TrimSpace(Head(paragraphs))
             rest == ParagraphPieces(Tail(paragraphs), maxTokens)
         IN  IF para = <<>> THEN rest
             ELSE IF estimateTokens(para) <= maxTokens THEN <<para>> \o rest
             ELSE LinePieces(Split(para, <<NL>>), maxTokens) \o rest

intermediateChunks(text, maxTokens) == ParagraphPieces(Split(text, <<NL, NL>>), maxTokens)

\* the overlap chunk is never force-finalized
SafeguardOff(currentTokens, pieceTokens, maxTokens) == FALSE

\* the piece still does not fit after the overlap reset
Safeguard(currentTokens, pieceTokens, maxTokens) == currentTokens + pieceTokens > maxTokens /\ currentTokens > 0

\* one iteration of the accumulation loop over the intermediate chunks
AccumulatePiece(acc, piece, isLast, maxTokens, overlap, base, warning) ==
    LET pieceTokens == estimateTokens(piece)
        finalize == acc.currentTokens > 0 /\ acc.currentTokens + pieceTokens > maxTokens
        finalizedChunkText == TrimSpace(acc.currentChunk)
        overlapText == calculateSentenceOverlap(finalizedChunkText, overlap)
        a1 == IF finalize
              THEN [currentChunk |-> overlapText,
                    currentTokens |-> estimateTokens(overlapText),
                    chunkIndex |-> acc.chunkIndex + 1,
                    finalChunks |-> Append(acc.finalChunks, Chunk(finalizedChunkText, ("chunk_index" :> acc.chunkIndex) @@ base, acc.overlapTokens)),
                    overlapTokens |-> estimateTokens(overlapText)]
              ELSE acc
        a2 == IF finalize /\ Safeguard(a1.currentTokens, pieceTokens, maxTokens)
              THEN [currentChunk |-> <<>>,
                    currentTokens |-> 0,
                    chunkIndex |-> a1.chunkIndex + 1,
                    finalChunks |-> Append(a1.finalChunks, Chunk(TrimSpace(a1.currentChunk), ("chunk_index" :> a1.chunkIndex) @@ base @@ ("warning" :> warning), a1.overlapTokens)),
                    overlapTokens |-> 0]
              ELSE a1
        a3 == [a2 EXCEPT !.currentChunk = @ \o piece, !.currentTokens = @ + pieceTokens]
    IN  IF isLast /\ TrimSpace(a3.currentChunk) # <<>>
        THEN [a3 EXCEPT !.chunkIndex = @ + 1,
                        !.finalChunks = Append(@, Chunk(TrimSpace(a3.currentChunk), ("chunk_index" :> a3.chunkIndex) @@ base, a3.overlapTokens))]
        ELSE a3

RECURSIVE Accumulate(_, _, _, _, _, _, _)
\* 4. the accumulation loop: pieces i.. of the intermediate chunks
Accumulate(acc, pieces, i, maxTokens, overlap, base, warning) ==
    IF i > Len(pieces) THEN acc
    ELSE Accumulate(AccumulatePiece(acc, pieces[i], i = Len(pieces), maxTokens, overlap, base, warning), pieces, i + 1, maxTokens, overlap, base, warning)

\* currentChunk := "", currentTokens := 0, with the chunks emitted so far
StartAccumulation(finalChunks, chunkIndex) == [currentChunk |-> <<>>, currentTokens |-> 0, chunkIndex |-> chunkIndex, finalChunks |-> finalChunks, overlapTokens |-> 0]

NoMetadata == [k \in {} |-> 0]

\* FallbackChunker.Chunk
FallbackChunk(body, maxTokens, overlap) ==
    LET text == TrimSpace(body)
        m == NormMaxTokens(maxTokens)
        o == NormOverlap(maxTokens, overlap)
    IN  IF text = <<>> THEN <<>>
        ELSE Accumulate(StartAccumulation(<<>>, 0), intermediateChunks(text, m), 1, m, o, NoMetadata, "Overlap truncated due to large piece following").finalChunks

\* text[i] is the first symbol of a line
LineStart(text, i) == i = 1 \/ text[i - 1] = NL

\* the positions from which ^#{2,}\s+(.*)$ matches
HeadingStarts(text, from) == {i \in from..(Len(text) - 1) : text[i] = HeadingMark /\ LineStart(text, i)}

\* the match starting at i: \s+ takes the whitespace, (.*) the rest of that line
HeadingMatch(text, i) ==
    LET g1s == CHOOSE k \in (i + 1)..Len(text) : IsWord(text[k]) /\ \A j \in (i + 1)..(k - 1) : ~IsWord(text[j])
        g1e == CHOOSE k \in g1s..Len(text) : (k = Len(text) \/ text[k + 1] = NL) /\ \A j \in g1s..k : IsWord(text[j])
    IN  [start |-> i, end |-> g1e, g1s |-> g1s, g1e |-> g1e]

RECURSIVE FindAllHeadings(_, _)
\* re.FindAllStringSubmatchIndex(text, -1), searching from position from
FindAllHeadings(text, from) ==
    IF HeadingStarts(text, from) = {} THEN <<>>
    ELSE LET i == CHOOSE k \in HeadingStarts(text, from) : \A j \in HeadingStarts(text, from) : k <= j
             m == HeadingMatch(text, i)
         IN  <<m>> \o FindAllHeadings(text, m.end + 1)

\* the whole heading line, markers included
HeadingTextWholeLine(text, m) == TrimSpace(SubSeq(text, m.start, m.g1e))

\* headingText: the first capture group of the match
HeadingText(text, m) == TrimSpace(SubSeq(text, m.g1s, m.g1e))

\* processSection: the chunks of one section appended to those emitted so far
processSection(finalChunks, sectionText, heading, maxTokens, overlap) ==
    LET text == TrimSpace(sectionText)
    IN  IF text = <<>> THEN finalChunks
        ELSE Accumulate(StartAccumulation(finalChunks, Len(finalChunks)), intermediateChunks(text, maxTokens), 1, maxTokens, overlap, "source_heading" :> heading, "Overlap truncated").finalChunks

RECURSIVE HeadingSections(_, _, _, _, _, _)
\* the loop over the matches: the section from the end of heading i to the next heading
HeadingSections(finalChunks, text, matches, i, maxTokens, overlap) ==
    IF i > Len(matches) THEN finalChunks
    ELSE LET end == IF i + 1 <= Len(matches) THEN matches[i + 1].start - 1 ELSE Len(text)
         IN  HeadingSections(processSection(finalChunks, SubSeq(text, matches[i].end + 1, end), HeadingText(text, matches[i]), maxTokens, overlap), text, matches, i + 1, maxTokens, overlap)

\* MarkdownChunker.Chunk
MarkdownChunk(body, maxTokens, overlap) ==
    LET text == TrimSpace(body)
        m == NormMaxTokens(maxTokens)
        o == NormOverlap(maxTokens, overlap)
        matches == FindAllHeadings(text, 1)
    IN  IF text = <<>> THEN <<>>
        ELSE IF matches = <<>> THEN processSection(<<>>, text, <<>>, m, o)
        ELSE HeadingSections(processSection(<<>>, SubSeq(text, 1, matches[1].start - 1), <<>>, m, o), text, matches, 1, m, o)

(***************************************************************************)
(* Chunking: ContentAwareChunk                                             *)
(***************************************************************************)
MarkdownTypes == {"text/markdown"}
HtmlTypes == {"text/html"}

\* the chunker selected by the metadata override and the content type
TargetChunkerType(c) ==
    LET override == IF c.chunker # "" THEN c.chunker ELSE "fallback"
        detected == IF override # "fallback" THEN override
                    ELSE IF c.ContentType \in MarkdownTypes THEN "markdown"
                    ELSE IF c.ContentType \in HtmlTypes THEN "html"
                    ELSE "fallback"
    IN  IF detected \in {"markdown", "html"} THEN detected ELSE "fallback"

\* only the parser tag is written
SetTotalsParserOnly(chunks, targetChunkerType) == [i \in 1..Len(chunks) |-> [chunks[i] EXCEPT !.Metadata = ("parser" :> targetChunkerType) @@ @]]

\* parser and total_chunks are set in the metadata of all generated chunks
SetTotals(chunks, targetChunkerType) == [i \in 1..Len(chunks) |-> [chunks[i] EXCEPT !.Metadata = ("parser" :> targetChunkerType) @@ ("total_chunks" :> Len(chunks)) @@ @]]

C20Body == <<HeadingMark, "Intro", NL, "para1", NL, NL, HeadingMark, "Body", NL, "para2">>

\* the bodies chunked
ChunkBodies == UNION {[1..n -> Symbols] : n \in 0..MaxBodyLen} \cup {C20Body}

\* content type and chunker override of the contents chunked
ContentKinds == {[ContentType |-> "text/plain", chunker |-> ""], [ContentType |-> "text/markdown", chunker |-> ""], [ContentType |-> "text/html", chunker |-> ""], [ContentType |-> "text/markdown", chunker |-> "pdf"]}

NoContent == [Body |-> <<>>, ContentType |-> "", chunker |-> ""]

CkCall(pc, c, maxTokens, overlap) == [pc |-> pc, content |-> c, maxTokens |-> maxTokens, overlap |-> overlap, targetChunkerType |-> "", effOverlap |-> 0, words |-> <<>>, startIndex |-> 0, covered |-> 0, chunks |-> <<>>]

CkIdle == ck = CkCall("idle", NoContent, 0, 0)

CkInit ==
    \E body \in ChunkBodies, kind \in ContentKinds, maxTokens \in 0..MaxTokensCfg, overlap \in (-1)..MaxOverlapCfg :
        ck = CkCall("call", [Body |-> body, ContentType |-> kind.ContentType, chunker |-> kind.chunker], maxTokens, overlap)

\* chunker = NewFallbackChunker(); chunks, err := chunker.Chunk(...)
CkFallbackChunker ==
    /\ ck.pc = "call"
    /\ TargetChunkerType(ck.content) = "fallback"
    /\ ck' = [ck EXCEPT !.pc = "chunked",
                        !.targetChunkerType = "fallback",
                        !.effOverlap = NormOverlap(ck.maxTokens, ck.overlap),
                        !.chunks = FallbackChunk(ck.content.Body, ck.maxTokens, ck.overlap)]
    /\ UNCHANGED <<fbVars, jobVars, ingestVars, wkVars, stVars, bkVars, srVars, catVars, czVars, caVars>>

\* chunker = NewMarkdownChunker(); chunks, err := chunker.Chunk(...)
CkMarkdownChunker ==
    /\ ck.pc = "call"
    /\ TargetChunkerType(ck.content) = "markdown"
    /\ ck' = [ck EXCEPT !.pc = "chunked",
                        !.targetChunkerType = "markdown",
                        !.effOverlap = NormOverlap(ck.maxTokens, ck.overlap),
                        !.chunks = MarkdownChunk(ck.content.Body, ck.maxTokens, ck.overlap)]
    /\ UNCHANGED <<fbVars, jobVars, ingestVars, wkVars, stVars, bkVars, srVars, catVars, czVars, caVars>>

\* chunker = NewHTMLChunker(); htmlChunker.Chunk up to its call of simpleChunkText:
\* the traversal that fills chunks runs after the no-chunks check, so every
\* non-empty body is handed to simpleChunkText
CkHtmlChunker ==
    /\ ck.pc = "call"
    /\ TargetChunkerType(ck.content) = "html"
    /\ ck' = [ck EXCEPT !.pc = IF Fields(ck.content.Body) = <<>> THEN "chunked" ELSE "simple",
                        !.targetChunkerType = "html",
                        !.effOverlap = NormOverlap(ck.maxTokens, ck.overlap),
                        !.words = Fields(ck.content.Body)]
    /\ UNCHANGED <<fbVars, jobVars, ingestVars, wkVars, stVars, bkVars, srVars, catVars, czVars, caVars>>

\* one iteration of the word-window loop of simpleChunkText
CkSimpleChunkText ==
    /\ ck.pc = "simple"
    /\ ck.startIndex < Len(ck.words)
    /\ LET maxTokens == NormMaxTokens(ck.maxTokens)
           totalWords == Len(ck.words)
           endIndex0 == Min(ck.startIndex + maxTokens, totalWords)
           endIndex == IF endIndex0 <= ck.startIndex THEN ck.startIndex + 1 ELSE endIndex0
           nextStart0 == ck.startIndex + maxTokens - ck.effOverlap
           nextStart == IF nextStart0 <= ck.startIndex THEN ck.startIndex + 1 ELSE nextStart0
           repeated == IF ck.covered > ck.startIndex THEN ck.covered - ck.startIndex ELSE 0
       IN  ck' = [ck EXCEPT !.chunks = Append(@, Chunk(SubSeq(ck.words, ck.startIndex + 1, endIndex), ("parser" :> "html-fallback") @@ ("chunk_index" :> Len(ck.chunks)), repeated)),
                            !.covered = endIndex,
                            !.startIndex = nextStart,
                            !.pc = IF nextStart >= totalWords THEN "chunked" ELSE "simple"]
    /\ UNCHANGED <<fbVars, jobVars, ingestVars, wkVars, stVars, bkVars, srVars, catVars, czVars, caVars>>

\* the parser tag and total_chunks are written and the chunks returned
CkSetTotals ==
    /\ ck.pc = "chunked"
    /\ ck' = [ck EXCEPT !.pc = "done", !.chunks = SetTotals(ck.chunks, ck.targetChunkerType)]
    /\ UNCHANGED <<fbVars, jobVars, ingestVars, wkVars, stVars, bkVars, srVars, catVars, czVars, caVars>>

ChunkNext ==
    \/ CkFallbackChunker
    \/ CkMarkdownChunker
    \/ CkHtmlChunker
    \/ CkSimpleChunkText
    \/ CkSetTotals

\* C16: the N chunks returned by ContentAwareChunk carry chunk_index 0..N-1 in
\* emission order, and every chunk's metadata has total_chunks = N and a
\* parser tag.
C16_IndexTotalParser ==
    ck.pc = "done" =>
        \A i \in 1..Len(ck.chunks) :
            /\ ck.chunks[i].Metadata["chunk_index"] = i - 1
            /\ "total_chunks" \in DOMAIN ck.chunks[i].Metadata
            /\ ck.chunks[i].Metadata["total_chunks"] = Len(ck.chunks)
            /\ "parser" \in DOMAIN ck.chunks[i].Metadata

C16_Witness ==
    /\ ck.pc = "done"
    /\ ck.targetChunkerType = "markdown"
    /\ Len(ck.chunks) = 2
    /\ ck.chunks[1].Metadata["source_heading"] # ck.chunks[2].Metadata["source_heading"]
    /\ ck.chunks[2].Metadata["chunk_index"] = 1
    /\ ck.chunks[2].Metadata["parser"] = "markdown"

RECURSIVE FreshTokens(_)
\* the tokens of the chunks in order, without each chunk's leading overlap
FreshTokens(chunks) ==
    IF chunks = <<>> THEN <<>>
    ELSE LET tokens == Fields(Head(chunks).Text)
         IN  SubSeq(tokens, Head(chunks).overlapTokens + 1, Len(tokens)) \o FreshTokens(Tail(chunks))

\* C17: the tokens of the emitted chunks in order, without the overlap text
\* repeated at the start of each chunk, are exactly the whitespace-separated
\* tokens of the body.
C17_TokensPreserved ==
    ck.pc = "done" => FreshTokens(ck.chunks) = Fields(ck.content.Body)

\* C18: no chunk of the fallback or the markdown strategy holds more than
\* max_tokens whitespace-separated tokens, overlap text included.
C18_ChunkWithinMaxTokens ==
    (ck.pc = "done" /\ ck.targetChunkerType \in {"fallback", "markdown"} /\ ck.maxTokens >= 1) =>
        \A i \in 1..Len(ck.chunks) : estimateTokens(ck.chunks[i].Text) <= ck.maxTokens

C18_Witness ==
    /\ ck.pc = "done"
    /\ ck.targetChunkerType = "fallback"
    /\ ck.maxTokens = 2
    /\ Len(ck.chunks) = 2
    /\ ck.chunks[2].overlapTokens = 1
    /\ estimateTokens(ck.chunks[2].Text) = 2

\* C19: with max_tokens >= 1 and overlap >= max_tokens every strategy works
\* with overlap max_tokens - 1, and the word-window loop moves its start index
\* forward by at least one token per iteration, stays inside the words and
\* emits no more chunks than there are words.
C19_ClampedAndAdvancing ==
    [][(ck.maxTokens >= 1 /\ ck.overlap >= ck.maxTokens) =>
            /\ ck'.effOverlap = ck.maxTokens - 1
            /\ ck.pc = "simple" =>
                    /\ ck'.startIndex >= ck.startIndex + 1
                    /\ Len(ck'.chunks) <= Len(ck.words)
                    /\ ck'.pc = "simple" => ck'.startIndex < Len(ck.words)]_vars

C19_Witness ==
    /\ ck.pc = "done"
    /\ ck.targetChunkerType = "html"
    /\ ck.maxTokens = 2
    /\ ck.overlap = 2
    /\ Len(ck.chunks) = 3
    /\ ck.chunks[3].overlapTokens = 1

\* the two chunks of the C20 body, with the given source headings
TwoHeadedChunks(first, second) ==
    /\ Len(ck.chunks) = 2
    /\ ck.chunks[1].Metadata["chunk_index"] = 0
    /\ ck.chunks[2].Metadata["chunk_index"] = 1
    /\ \A i \in 1..2 : ck.chunks[i].Metadata["total_chunks"] = 2
    /\ ck.chunks[1].Metadata["source_heading"] = first
    /\ ck.chunks[2].Metadata["source_heading"] = second

IsC20Call == ck.pc = "done" /\ ck.content.Body = C20Body /\ ck.targetChunkerType = "markdown"

\* C20 as stated: the body "## Intro\npara1\n\n## Body\npara2" yields two
\* chunks with chunk_index 0 and 1, total_chunks 2 and source_heading
\* "## Intro" and "## Body".
C20_HeadingsWithMarkers ==
    IsC20Call => TwoHeadedChunks(<<HeadingMark, "Intro">>, <<HeadingMark, "Body">>)

\* C20: the body "## Intro\npara1\n\n## Body\npara2" yields two chunks with
\* chunk_index 0 and 1, total_chunks 2 and source_heading "Intro" and "Body",
\* the heading text without the markers.
C20_HeadingsWithoutMarkers ==
    IsC20Call => TwoHeadedChunks(<<"Intro">>, <<"Body">>)

C20_Witness ==
    /\ IsC20Call
    /\ ck.maxTokens = 1
    /\ ck.chunks[1].Text = <<"para1">>
    /\ ck.chunks[2].Text = <<"para2">>

\* C21: the parser tag of every delivered chunk names the strategy that
\* produced it: chunks of the plain-text fallback of the HTML chunker carry
\* parser = html-fallback, and parser = html is carried only by chunks of the
\* tree traversal, which also carry source_tags.
C21_ParserNamesStrategy ==
    ck.pc = "done" =>
        \A i \in 1..Len(ck.chunks) :
            /\ (ck.targetChunkerType = "html" /\ ck.words # <<>>) => ck.chunks[i].Metadata["parser"] = "html-fallback"
            /\ ck.chunks[i].Metadata["parser"] = "html" => "source_tags" \in DOMAIN ck.chunks[i].Metadata

(***************************************************************************)
(* Search: StoreImpl.RecordSearchQuery, RecordSearchResults,               *)
(* SimilaritySearch, GetEmbedding, GetContentsByIDs                        *)
(***************************************************************************)
SearchBodies == <<"hello world", "quantum", "golang">>
SearchContentIDs == DOMAIN SearchBodies
NoContentID == 0
NoSearchQuery == [ID |-> 0, ResultsCount |-> 0]

\* the representative chunk of a content and its further chunk
RepChunk(c) == <<"chunk", 2 * c - 1>>
NextChunk(c) == <<"chunk", 2 * c>>

\* how a content of the corpus has been enriched: not at all, embedded with
\* one or two chunks, or marked embedded with its chunk rows deleted
EmbeddingStates == {"plain", "one", "two", "dangling"}

CorpusContent(state) ==
    {IF state[c] = "plain"
     THEN NewContentRow(c, 1, SearchBodies[c], 1)
     ELSE [NewContentRow(c, 1, SearchBodies[c], 1) EXCEPT !.is_embedded = TRUE, !.embedding_id = RepChunk(c)] :
        c \in SearchContentIDs}

CorpusEmbeddings(state) ==
    {[id |-> RepChunk(c), content_id |-> c] : c \in {d \in SearchContentIDs : state[d] \in {"one", "two"}}}
    \cup {[id |-> NextChunk(c), content_id |-> c] : c \in {d \in SearchContentIDs : state[d] = "two"}}

\* RecordSearchQuery: INSERT INTO search_queries ... RETURNING id
RecordSearchQuery(rows, seq, query, resultsCount, dbOk) ==
    IF ~dbOk
    THEN [rows |-> rows, seq |-> seq, searchQuery |-> NoSearchQuery, err |-> Wrap("failed to record search query", PgConnError)]
    ELSE [rows |-> rows \cup {[id |-> seq + 1, query |-> query, results_count |-> resultsCount]},
          seq |-> seq + 1,
          searchQuery |-> [ID |-> seq + 1, ResultsCount |-> resultsCount],
          err |-> Nil]

\* the rows of one call of RecordSearchResults, ranked in result order
SearchResultRows(queryID, results) == {[search_query_id |-> queryID, content_id |-> results[i], rank |-> i] : i \in DOMAIN results}

\* RecordSearchResults: the INSERTs of one transaction, committed or rolled back
RecordSearchResults(rows, queryID, results, dbOk) ==
    IF ~dbOk
    THEN [rows |-> rows, err |-> Wrap("failed to insert search result", PgConnError)]
    ELSE [rows |-> rows \cup SearchResultRows(queryID, results), err |-> Nil]

\* the orders in which ORDER BY vector <-> $1 can list the chunk rows
DistanceOrders(chunks) == {o \in [1..Cardinality(chunks) -> chunks] : \A i, j \in DOMAIN o : i # j => o[i] # o[j]}

\* SimilaritySearch: the content ids of the k nearest chunk rows
SimilaritySearch(order, k, dbOk) ==
    IF ~dbOk
    THEN [results |-> <<>>, err |-> Wrap("similarity search query", PgConnError)]
    ELSE [results |-> [i \in 1..Min(k, Len(order)) |-> order[i].content_id], err |-> Nil]

\* GetEmbedding: SELECT ... FROM embeddings WHERE id = $1
GetEmbedding(chunks, id, dbOk) ==
    IF ~dbOk THEN Wrap("get embedding", PgConnError)
    ELSE IF {k \in chunks : k.id = id} = {} THEN ErrNotFound
    ELSE Nil

\* GetContentsByIDs: the contents in the order of ids, nil for a missing one
GetContentsByIDs(rows, ids, dbOk) ==
    IF ~dbOk
    THEN [contents |-> <<>>, err |-> Wrap("failed to query contents by IDs", PgConnError)]
    ELSE [contents |-> [i \in DOMAIN ids |-> IF ContentByID(rows, ids[i]) = {} THEN NoContentID ELSE ids[i]], err |-> Nil]

RECURSIVE SortedIDs(_)
\* the contents a keyword query matches, in the order the store lists them
SortedIDs(ids) ==
    IF ids = {} THEN <<>>
    ELSE LET least == CHOOSE i \in ids : \A j \in ids : i <= j
         IN  <<least>> \o SortedIDs(ids \ {least})

\* KeywordSearchContent: the matching contents, or the query's error
KeywordSearchContent(matching, dbOk) ==
    IF ~dbOk
    THEN [results |-> <<>>, err |-> Wrap("keyword search query failed", PgConnError)]
    ELSE [results |-> SortedIDs(matching), err |-> Nil]

(***************************************************************************)
(* SearchService: KeywordSearch, SemanticSearch, FindRelatedContent        *)
(***************************************************************************)
DefaultSearchLimit == 10

InitSr ==
    [pc |-> "idle", kind |-> "none", limit |-> 0, Limit |-> 0, source |-> NoContentID,
     searchQueryRecord |-> NoSearchQuery, errRecord |-> Nil, errUpdate |-> Nil,
     vectorResults |-> <<>>, contentIDs |-> <<>>, results |-> <<>>,
     simK |-> 0, simCalls |-> 0, failed |-> FALSE, out |-> <<>>, err |-> Nil]

\* the error of a failed recording reaches the caller
RecordingErrFatal(errRecord, errUpdate) == IF errRecord # Nil THEN errRecord ELSE errUpdate

\* a recording failure is logged; the search returns nil as its error
RecordingErr(errRecord, errUpdate) == Nil

\* every row of the similarity result is kept
DropSourceOff(vectorResults, source) == vectorResults

\* the rows whose content identity equals the source are dropped
DropSource(vectorResults, source) == SelectSeq(vectorResults, LAMBDA id : id # source)

\* the search fails: return nil, fmt.Errorf(...)
SrFail(msg, err) == [sr EXCEPT !.pc = "done", !.failed = TRUE, !.out = <<>>, !.err = Wrap(msg, err)]

\* params.Limit <= 0 selects 10
EffectiveLimit(limit) == IF limit <= 0 THEN DefaultSearchLimit ELSE limit

\* a search is called
SrBegin(kind, limit, source) ==
    /\ sr.pc = "idle"
    /\ sr' = [sr EXCEPT !.pc = IF kind = "related" THEN "get_content" ELSE "record_query",
                        !.kind = kind,
                        !.limit = limit,
                        !.Limit = IF kind = "keyword" THEN limit ELSE EffectiveLimit(limit),
                        !.source = IF kind = "related" THEN source ELSE NoContentID]
    /\ UNCHANGED <<searchQueries, searchResults, sqSeq>>
    /\ UNCHANGED <<fbVars, jobVars, ingestVars, wkVars, stVars, bkVars, ckVars, catVars, czVars, caVars>>

\* s.searchHistory.RecordSearchQuery(ctx, params.Query, 0)
SrRecordSearchQuery(dbOk) ==
    /\ sr.pc = "record_query"
    /\ LET out == RecordSearchQuery(searchQueries, sqSeq, "q", 0, dbOk)
       IN  /\ searchQueries' = out.rows
           /\ sqSeq' = out.seq
           /\ sr' = [sr EXCEPT !.pc = IF sr.kind = "keyword" THEN "keyword_search" ELSE "embed_query",
                               !.searchQueryRecord = out.searchQuery,
                               !.errRecord = out.err]
    /\ UNCHANGED searchResults
    /\ UNCHANGED <<fbVars, jobVars, ingestVars, wkVars, stVars, bkVars, ckVars, catVars, czVars, caVars>>

\* s.keywordSearcher.KeywordSearchContent and the service results built from it
SrKeywordSearchContent(matching, dbOk) ==
    /\ sr.pc = "keyword_search"
    /\ LET out == KeywordSearchContent(matching, dbOk)
       IN  sr' = IF out.err # Nil THEN SrFail("keyword search failed", out.err)
                 ELSE [sr EXCEPT !.pc = "record_results", !.results = out.results]
    /\ UNCHANGED <<searchQueries, searchResults, sqSeq>>
    /\ UNCHANGED <<fbVars, jobVars, ingestVars, wkVars, stVars, bkVars, ckVars, catVars, czVars, caVars>>

\* s.embedding.GenerateEmbedding(ctx, params.Query)
SrGenerateEmbedding(ok) ==
    /\ sr.pc = "embed_query"
    /\ sr' = IF ~ok THEN SrFail("failed to generate query embedding", <<"all providers failed">>)
             ELSE [sr EXCEPT !.pc = "similarity"]
    /\ UNCHANGED <<searchQueries, searchResults, sqSeq>>
    /\ UNCHANGED <<fbVars, jobVars, ingestVars, wkVars, stVars, bkVars, ckVars, catVars, czVars, caVars>>

\* s.contentStore.GetContent and the check of is_embedded and embedding_id
SrGetContent(dbOk) ==
    /\ sr.pc = "get_content"
    /\ LET got == GetContent(content, sr.source, dbOk)
       IN  sr' = IF got.err # Nil THEN SrFail("failed to get source content", got.err)
                 ELSE IF ~got.row.is_embedded \/ got.row.embedding_id = NullText
                 THEN SrFail("source content has not been embedded, cannot find related content", Nil)
                 ELSE [sr EXCEPT !.pc = "get_embedding"]
    /\ UNCHANGED <<searchQueries, searchResults, sqSeq>>
    /\ UNCHANGED <<fbVars, jobVars, ingestVars, wkVars, stVars, bkVars, ckVars, catVars, czVars, caVars>>

\* s.vector.GetEmbedding(ctx, *sourceContent.EmbeddingID)
SrGetEmbedding(dbOk) ==
    /\ sr.pc = "get_embedding"
    /\ LET err == GetEmbedding(embeddings, RepChunk(sr.source), dbOk)
       IN  sr' = IF err # Nil THEN SrFail("failed to get source embedding", err)
                 ELSE [sr EXCEPT !.pc = "similarity"]
    /\ UNCHANGED <<searchQueries, searchResults, sqSeq>>
    /\ UNCHANGED <<fbVars, jobVars, ingestVars, wkVars, stVars, bkVars, ckVars, catVars, czVars, caVars>>

\* s.vector.SimilaritySearch with Limit (semantic) or Limit+1 (related), and the
\* content ids collected from its rows
SrSimilaritySearch(order, dbOk) ==
    /\ sr.pc = "similarity"
    /\ LET k == IF sr.kind = "related" THEN sr.Limit + 1 ELSE sr.Limit
           out == SimilaritySearch(order, k, dbOk)
           contentIDs == IF sr.kind = "related" THEN DropSource(out.results, sr.source) ELSE out.results
       IN  sr' = IF out.err # Nil
                 THEN [SrFail("vector similarity search failed", out.err) EXCEPT !.simK = k, !.simCalls = @ + 1]
                 ELSE [sr EXCEPT !.pc = IF contentIDs = <<>> THEN "done" ELSE "get_contents",
                                 !.simK = k,
                                 !.simCalls = @ + 1,
                                 !.vectorResults = out.results,
                                 !.contentIDs = contentIDs]
    /\ UNCHANGED <<searchQueries, searchResults, sqSeq>>
    /\ UNCHANGED <<fbVars, jobVars, ingestVars, wkVars, stVars, bkVars, ckVars, catVars, czVars, caVars>>

\* s.contentStore.GetContentsByIDs and the result items built from the contents;
\* FindRelatedContent returns here, at most Limit items
SrGetContentsByIDs(dbOk) ==
    /\ sr.pc = "get_contents"
    /\ LET got == GetContentsByIDs(content, sr.contentIDs, dbOk)
           found == SelectSeq(got.contents, LAMBDA id : id # NoContentID)
           semantic == SelectSeq(sr.vectorResults, LAMBDA id : \E i \in DOMAIN got.contents : got.contents[i] = id)
           related == SubSeq(found, 1, Min(sr.Limit, Len(found)))
       IN  sr' = IF got.err # Nil THEN SrFail("failed to fetch content details for search results", got.err)
                 ELSE IF sr.kind = "related" THEN [sr EXCEPT !.pc = "done", !.results = related, !.out = related]
                 ELSE [sr EXCEPT !.pc = "record_results", !.results = semantic]
    /\ UNCHANGED <<searchQueries, searchResults, sqSeq>>
    /\ UNCHANGED <<fbVars, jobVars, ingestVars, wkVars, stVars, bkVars, ckVars, catVars, czVars, caVars>>

\* if the query row was recorded: searchQueryRecord.ResultsCount = len(results) and
\* s.searchHistory.RecordSearchResults; then return results, nil
SrRecordSearchResults(dbOk) ==
    /\ sr.pc = "record_results"
    /\ LET recorded == sr.errRecord = Nil /\ sr.searchQueryRecord # NoSearchQuery
           out == RecordSearchResults(searchResults, sr.searchQueryRecord.ID, sr.results, dbOk)
           errUpdate == IF recorded THEN out.err ELSE Nil
       IN  /\ searchResults' = IF recorded THEN out.rows ELSE searchResults
           /\ sr' = [sr EXCEPT !.pc = "done",
                               !.searchQueryRecord = IF recorded THEN [@ EXCEPT !.ResultsCount = Len(sr.results)] ELSE @,
                               !.errUpdate = errUpdate,
                               !.out = sr.results,
                               !.err = RecordingErr(sr.errRecord, errUpdate)]
    /\ UNCHANGED <<searchQueries, sqSeq>>
    /\ UNCHANGED <<fbVars, jobVars, ingestVars, wkVars, stVars, bkVars, ckVars, catVars, czVars, caVars>>

SearchKinds == {"keyword", "semantic", "related"}

SearchNext ==
    \/ \E kind \in SearchKinds, limit \in 0..MaxSearchLimit, source \in SearchContentIDs : SrBegin(kind, limit, source)
    \/ \E dbOk \in BOOLEAN : SrRecordSearchQuery(dbOk)
    \/ \E matching \in SUBSET SearchContentIDs, dbOk \in BOOLEAN : SrKeywordSearchContent(matching, dbOk)
    \/ \E ok \in BOOLEAN : SrGenerateEmbedding(ok)
    \/ \E dbOk \in BOOLEAN : SrGetContent(dbOk)
    \/ \E dbOk \in BOOLEAN : SrGetEmbedding(dbOk)
    \/ \E order \in DistanceOrders(embeddings), dbOk \in BOOLEAN : SrSimilaritySearch(order, dbOk)
    \/ \E dbOk \in BOOLEAN : SrGetContentsByIDs(dbOk)
    \/ \E dbOk \in BOOLEAN : SrRecordSearchResults(dbOk)

SrIdle ==
    /\ searchQueries = {}
    /\ searchResults = {}
    /\ sqSeq = 0
    /\ sr = InitSr

\* the tables hold a corpus of contents in some state of enrichment
SearchCorpusInit ==
    \E state \in [SearchContentIDs -> EmbeddingStates] :
        /\ Cardinality(CorpusEmbeddings(state)) <= MaxChunkRows
        /\ sources = {[id |-> 1, name |-> "test"]}
        /\ srcSeq = 1
        /\ content = CorpusContent(state)
        /\ contentSeq = Len(SearchBodies)
        /\ cfg = [jobs |-> FALSE, summarization |-> FALSE, summarizationQueue |-> FALSE,
              autoApplyTags |-> FALSE]
        /\ ac = [p \in Callers |-> InitAc]
        /\ acHist = [p \in Callers |-> InitAcHist]
        /\ embeddings = CorpusEmbeddings(state)
        /\ embSeq = 2 * Len(SearchBodies)
        /\ ew = [c \in ContentIDs |-> InitEw]
        /\ sw = [c \in ContentIDs |-> InitSw]
        /\ dc = [c \in ContentIDs |-> InitDc]

\* C22: after a keyword or semantic search has completed successfully with its
\* query row recorded, the row's results_count is the number of results returned.
C22_ResultsCountPersisted ==
    (sr.pc = "done" /\ sr.kind \in {"keyword", "semantic"} /\ sr.err = Nil /\ sr.errRecord = Nil) =>
        \A q \in searchQueries : q.id = sr.searchQueryRecord.ID => q.results_count = Len(sr.out)

\* C23: when recording the query row or the result rows fails, a keyword or
\* semantic search whose retrieval succeeds still returns the result list it has
\* built, with no error.
C23_RecordingFailureNotFatal ==
    (sr.pc = "done" /\ sr.kind \in {"keyword", "semantic"} /\ ~sr.failed /\ (sr.errRecord # Nil \/ sr.errUpdate # Nil)) =>
        /\ sr.err = Nil
        /\ sr.out = sr.results

C23_Witness ==
    /\ sr.pc = "done"
    /\ sr.kind = "semantic"
    /\ sr.errRecord = Nil
    /\ sr.errUpdate # Nil
    /\ Len(sr.out) = 2

\* the source content of a related search is embedded and has a representative
SourceEmbedded == \E r \in content : r.id = sr.source /\ r.is_embedded /\ r.embedding_id # NullText

\* what FindRelatedContent does for the limits in limits
RelatedContract(limits) ==
    (sr.pc = "done" /\ sr.kind = "related" /\ sr.limit \in limits) =>
        IF SourceEmbedded
        THEN /\ sr.simCalls > 0 => sr.simK = sr.limit + 1
             /\ Len(sr.out) <= sr.limit
             /\ \A i \in DOMAIN sr.out : sr.out[i] # sr.source
        ELSE /\ sr.err # Nil
             /\ sr.simCalls = 0

\* C24 as stated: for every limit k, FindRelatedContent on an embedded source
\* queries the k+1 nearest rows, drops the rows of the source and returns at most
\* k items, none the source; on a source not embedded it fails without a
\* similarity query.
C24_RelatedAnyLimit == RelatedContract(0..MaxSearchLimit)

\* C24: for every limit k >= 1, FindRelatedContent on an embedded source queries
\* the k+1 nearest rows, drops the rows of the source and returns at most k
\* items, none the source; on a source not embedded it fails without a
\* similarity query.
C24_RelatedPositiveLimit == RelatedContract(1..MaxSearchLimit)

C24_Witness ==
    /\ sr.pc = "done"
    /\ sr.kind = "related"
    /\ sr.limit = 1
    /\ sr.simK = 2
    /\ sr.vectorResults = <<sr.source, sr.source>>
    /\ sr.err = Nil

(***************************************************************************)
(* Specifications                                                          *)
(***************************************************************************)
\* the fallback service under concurrent calls
(***************************************************************************)
(* LLMCategorizer.Categorize                                               *)
(***************************************************************************)
\* the float64 value 1.0, in units of 1/ConfidenceScale
One == ConfidenceScale
JsonFields == {"tags", "category", "confidence"}
\* the JSON objects a provider may answer with: any of the three fields may be
\* missing; a missing field's slot holds a filler that is never read
JsonObjects ==
    {o \in [fields : SUBSET JsonFields, tags : SuggestedTags, category : Categories,
            confidence : 0..ConfidenceScale] :
        /\ ("tags" \notin o.fields => o.tags = <<>>)
        /\ ("category" \notin o.fields => o.category = "")
        /\ ("confidence" \notin o.fields => o.confidence = 0)}
NoJson == [fields |-> {}, tags |-> <<>>, category |-> "", confidence |-> 0]
\* what CreateChatCompletion may give back
ResponseKinds == {"api_error", "no_choices", "invalid_json", "json"}

\* json.Unmarshal into the struct {Tags, Category, Confidence}: a field missing
\* from the object leaves the struct's zero value
Unmarshal(o) ==
    [Tags |-> IF "tags" \in o.fields THEN o.tags ELSE <<>>,
     Category |-> IF "category" \in o.fields THEN o.category ELSE "",
     Confidence |-> IF "confidence" \in o.fields THEN o.confidence ELSE 0]

\* the defensive default: `if parsed.Confidence == 0 { parsed.Confidence = 1.0 }`
DefaultConfidence(parsed) == IF parsed.Confidence = 0 THEN [parsed EXCEPT !.Confidence = One] ELSE parsed

NoParsed == [Tags |-> <<>>, Category |-> "", Confidence |-> 0]
InitCz == [pc |-> "idle", kind |-> "json", content |-> NoJson, parsed |-> NoParsed, result |-> NoParsed, err |-> Nil]

\* the call to c.client.CreateChatCompletion and the checks of its answer
CzCreateChatCompletion(kind, object) ==
    /\ cz.pc = "idle"
    /\ kind # "json" => object = NoJson
    /\ cz' = CASE kind = "api_error" ->
                    [cz EXCEPT !.pc = "done", !.kind = kind,
                               !.err = <<"openai chat completion failed">>]
               [] kind = "no_choices" ->
                    [cz EXCEPT !.pc = "done", !.kind = kind,
                               !.err = <<"no choices returned from OpenAI">>]
               [] OTHER -> [cz EXCEPT !.pc = "unmarshal", !.kind = kind, !.content = object]
    /\ UNCHANGED <<fbVars, jobVars, ingestVars, wkVars, stVars, bkVars, ckVars, srVars, catVars, caVars>>

\* json.Unmarshal of the first choice's content
CzUnmarshal ==
    /\ cz.pc = "unmarshal"
    /\ cz' = IF cz.kind = "invalid_json"
             THEN [cz EXCEPT !.pc = "done", !.err = <<"failed to parse LLM response as JSON">>]
             ELSE [cz EXCEPT !.pc = "defaults", !.parsed = Unmarshal(cz.content)]
    /\ UNCHANGED <<fbVars, jobVars, ingestVars, wkVars, stVars, bkVars, ckVars, srVars, catVars, caVars>>

\* the defensive default and the result returned
CzReturn ==
    /\ cz.pc = "defaults"
    /\ cz' = [cz EXCEPT !.pc = "done", !.result = DefaultConfidence(cz.parsed)]
    /\ UNCHANGED <<fbVars, jobVars, ingestVars, wkVars, stVars, bkVars, ckVars, srVars, catVars, caVars>>

CategorizerNext ==
    \/ \E kind \in ResponseKinds, object \in JsonObjects : CzCreateChatCompletion(kind, object)
    \/ CzUnmarshal
    \/ CzReturn

CzIdle == cz = InitCz

\* C26: for every parseable response, Categorize returns the value of the
\* confidence field when the field is present, and 1.0 when it is absent.
C26_ConfidenceOrDefault ==
    (cz.pc = "done" /\ cz.err = Nil) =>
        cz.result.Confidence = IF "confidence" \in cz.content.fields
                               THEN cz.content.confidence ELSE One

(***************************************************************************)
(* services.ContentAwareChunk (strings in, strings out)                    *)
(***************************************************************************)
\* the texts chunked
PlainTexts == UNION {[1..n -> Symbols] : n \in 0..MaxPlainLen}

\* the positions from which (?m)^#{2,} .*$ matches: markers at the start of a
\* line, followed by a space, that is by another word of the line
SectionStarts(text) == {i \in 1..(Len(text) - 1) : text[i] = HeadingMark /\ LineStart(text, i) /\ IsWord(text[i + 1])}

\* filterEmpty
filterEmpty(ss) == SelectSeq(ss, LAMBDA x : TrimSpace(x) # <<>>)

RECURSIVE SectionsFrom(_, _)
\* the sections from position from on: each runs up to the next heading
SectionsFrom(text, from) ==
    LET later == {h \in SectionStarts(text) : h > from}
    IN  IF later = {} THEN <<TrimSpace(SubSeq(text, from, Len(text)))>>
        ELSE LET n == CHOOSE k \in later : \A j \in later : k <= j
             IN  <<TrimSpace(SubSeq(text, from, n - 1))>> \o SectionsFrom(text, n)

splitByMarkdownHeadings(text) ==
    IF SectionStarts(text) = {} THEN <<text>> ELSE filterEmpty(SectionsFrom(text, 1))

RECURSIVE SentenceMatches(_)
\* re.FindAllString for ([^.!?]+[.!?]): every match ends with a sentence-final
\* word; what follows the last one matches nothing
SentenceMatches(text) ==
    LET ends == {i \in 1..Len(text) : text[i] \in SentenceFinal}
    IN  IF ends = {} THEN <<>>
        ELSE LET i == CHOOSE k \in ends : \A j \in ends : k <= j
             IN  <<SubSeq(text, 1, i)>> \o SentenceMatches(SubSeq(text, i + 1, Len(text)))

splitBySentences(text) ==
    IF SentenceMatches(text) = <<>> THEN <<text>> ELSE filterEmpty(SentenceMatches(text))

\* splitWordsUnicode
splitWordsUnicode(text) == Fields(text)

RECURSIVE SectionChunks(_, _)
\* the inner loop of chunkSections: start = end, no overlap
SectionChunks(words, maxTokens) ==
    IF words = <<>> THEN <<>>
    ELSE LET end == IF maxTokens > Len(words) THEN Len(words) ELSE maxTokens
         IN  <<SubSeq(words, 1, end)>> \o SectionChunks(SubSeq(words, end + 1, Len(words)), maxTokens)

RECURSIVE chunkSections(_, _)
chunkSections(sections, maxTokens) ==
    IF sections = <<>> THEN <<>>
    ELSE SectionChunks(splitWordsUnicode(Head(sections)), maxTokens) \o chunkSections(Tail(sections), maxTokens)

\* end := start + maxTokens, cut at the length of the input
LoopEnd(start, maxTokens, length) == IF start + maxTokens > length THEN length ELSE start + maxTokens

\* start = end - overlap; if start < 0 { start = 0 }
NextStart(end, overlap) == IF end - overlap < 0 THEN 0 ELSE end - overlap

InitCa == [pc |-> "idle", content |-> <<>>, maxTokens |-> 0, overlap |-> 0, length |-> 0, start |-> 0, nChunks |-> 0]

\* ContentAwareChunk up to the loop it enters
CaBegin(text, maxTokens, overlap) ==
    /\ ca.pc = "idle"
    /\ LET call == [InitCa EXCEPT !.content = text, !.maxTokens = maxTokens, !.overlap = overlap]
           trimmed == TrimSpace(text)
           sections == splitByMarkdownHeadings(trimmed)
           sentences == splitBySentences(trimmed)
           words == splitWordsUnicode(trimmed)
       IN  ca' = IF maxTokens <= 0 THEN [call EXCEPT !.pc = "done", !.nChunks = 1]
                 ELSE IF trimmed = <<>> THEN [call EXCEPT !.pc = "done"]
                 ELSE IF Len(sections) > 1
                 THEN [call EXCEPT !.pc = "done", !.nChunks = Len(chunkSections(sections, maxTokens))]
                 ELSE IF Len(sentences) > 1
                 THEN [call EXCEPT !.pc = "sentences", !.length = Len(sentences)]
                 ELSE IF Len(words) = 0 THEN [call EXCEPT !.pc = "done"]
                 ELSE [call EXCEPT !.pc = "words", !.length = Len(words)]
    /\ UNCHANGED <<fbVars, jobVars, ingestVars, wkVars, stVars, bkVars, ckVars, srVars, catVars, czVars>>

\* one iteration of the word loop of ContentAwareChunk
CaWordIteration ==
    /\ ca.pc = "words"
    /\ ca.start < ca.length
    /\ ca.nChunks < MaxIterations
    /\ ca' = [ca EXCEPT !.nChunks = @ + 1,
                        !.start = NextStart(LoopEnd(ca.start, ca.maxTokens, ca.length), ca.overlap)]
    /\ UNCHANGED <<fbVars, jobVars, ingestVars, wkVars, stVars, bkVars, ckVars, srVars, catVars, czVars>>

\* one iteration of the loop of chunkSentences
CaSentenceIteration ==
    /\ ca.pc = "sentences"
    /\ ca.start < ca.length
    /\ ca.nChunks < MaxIterations
    /\ ca' = [ca EXCEPT !.nChunks = @ + 1,
                        !.start = NextStart(LoopEnd(ca.start, ca.maxTokens, ca.length), ca.overlap)]
    /\ UNCHANGED <<fbVars, jobVars, ingestVars, wkVars, stVars, bkVars, ckVars, srVars, catVars, czVars>>

\* the loop condition start < len(...) fails: the chunks are returned
CaReturn ==
    /\ ca.pc \in {"words", "sentences"}
    /\ ca.start >= ca.length
    /\ ca' = [ca EXCEPT !.pc = "done"]
    /\ UNCHANGED <<fbVars, jobVars, ingestVars, wkVars, stVars, bkVars, ckVars, srVars, catVars, czVars>>

PlainChunkNext ==
    \/ \E text \in PlainTexts, maxTokens \in 0..MaxTokensCfg, overlap \in 0..MaxOverlapCfg :
            CaBegin(text, maxTokens, overlap)
    \/ CaWordIteration
    \/ CaSentenceIteration
    \/ CaReturn

CaIdle == ca = InitCa

\* within the claim's arguments: maxTokens >= 1 and 0 <= overlap < maxTokens
CaArgsOk == ca.maxTokens >= 1 /\ 0 <= ca.overlap /\ ca.overlap < ca.maxTokens

\* C29: for a non-empty content, maxTokens >= 1 and 0 <= overlap < maxTokens,
\* every iteration of the word loop and of the loop of chunkSentences moves the
\* start index strictly forward, so that the loop reaches the end of its input
\* and the call terminates.
C29_StartStrictlyIncreases ==
    [][(ca.pc \in {"words", "sentences"} /\ ca'.pc = ca.pc /\ CaArgsOk) => ca'.start > ca.start]_vars

PipeIdle == WkIdle /\ StIdle /\ BkIdle /\ CkIdle /\ SrIdle /\ CatIdle /\ CzIdle /\ CaIdle

FallbackInit == FbInit /\ JobInit /\ IngestIdle /\ PipeIdle
FallbackSpec == FallbackInit /\ [][FbNext]_vars

\* the job client and the job store
FbIdle ==
    /\ numProviders = 1
    /\ ActiveProvider = 0
    /\ RetryStrategy = [MaxAttempts |-> 0, BaseDelayMs |-> 0]
    /\ mu = [readers |-> {}, writer |-> NoCall]
    /\ fb = [c \in Calls |-> InitCall]
    /\ ctxDone = [c \in Calls |-> FALSE]
    /\ fbHist = [c \in Calls |-> InitHist]

JobsInit == FbIdle /\ JobInit /\ IngestIdle /\ PipeIdle
JobSpec == JobsInit /\ [][JobNext]_vars

\* concurrent AddContent calls over the content store and the job client
IngestSpecInit == FbIdle /\ JobInit /\ IngestInit /\ PipeIdle
IngestSpec == IngestSpecInit /\ [][IngestNext]_vars

\* the batch driver over the job store
WorkerInit == FbIdle /\ JobInit /\ IngestIdle /\ WkIdle /\ StIdle /\ BkIdle /\ CkIdle /\ SrIdle /\ CatIdle /\ CzIdle /\ CaIdle
WorkerSpec == WorkerInit /\ [][WorkerNext]_vars

\* content deletion, the embedding worker and the summary writer over both stores
StoreInit == FbIdle /\ JobInit /\ StoredInit /\ WkIdle /\ StInit /\ BkIdle /\ CkIdle /\ SrIdle /\ CatIdle /\ CzIdle /\ CaIdle
StoreSpec == StoreInit /\ [][StoreNext]_vars

\* NextBackoff over strategies and attempts
BackoffInit == FbIdle /\ JobInit /\ IngestIdle /\ WkIdle /\ StIdle /\ BkInit /\ CkIdle /\ SrIdle /\ CatIdle /\ CzIdle /\ CaIdle
BackoffSpec == BackoffInit /\ [][BackoffNext]_vars

\* ContentAwareChunk over bodies, content types and chunking parameters
ChunkInit == FbIdle /\ JobInit /\ IngestIdle /\ WkIdle /\ StIdle /\ BkIdle /\ CkInit /\ SrIdle /\ CatIdle /\ CzIdle /\ CaIdle
ChunkSpec == ChunkInit /\ [][ChunkNext]_vars

\* the searches over a corpus of contents
SearchInit == FbIdle /\ JobInit /\ SearchCorpusInit /\ WkIdle /\ BkIdle /\ CkIdle /\ SrIdle /\ CatIdle /\ CzIdle /\ CaIdle
SearchSpec == SearchInit /\ [][SearchNext]_vars

\* AddContent with auto-tagging, and ApplyCategories
CategorizeInit == FbIdle /\ JobInit /\ CategorizeIngestInit /\ WkIdle /\ StIdle /\ BkIdle /\ CkIdle /\ SrIdle /\ CatIdle /\ CzIdle /\ CaIdle
CategorizeSpec == CategorizeInit /\ [][CategorizeNext]_vars

\* one Categorize call on any provider response
CategorizerInit == FbIdle /\ JobInit /\ IngestIdle /\ PipeIdle
CategorizerSpec == CategorizerInit /\ [][CategorizerNext]_vars

\* one services.ContentAwareChunk call on any text
PlainChunkInit == FbIdle /\ JobInit /\ IngestIdle /\ PipeIdle
PlainChunkSpec == PlainChunkInit /\ [][PlainChunkNext]_vars

====
